---------------------------- MODULE Spec2Model ----------------------------
\* A model of AdvancedPIIRedactor (src/lib/API/PDF_IMG_to_TXT.py): the pattern
\* registry, the validators, the context scorer, detect_pii with its overlap
\* resolution and false-positive filter, and the redaction coordinator with its
\* session log.
\*
\* Conventions.
\*  - A Python str is a TLA+ string; offsets are Python's 0-based offsets, so
\*    text[a:b] is Slice(text, a, b) and text[i] is CharAt(text, i).
\*  - A Python float is written as an integer count of 1/10000: 0.7 is 7000.
\*    A double that is one rounding step away from a decimal is written one unit
\*    away from it: 0.8999999999999999 is 8999, 0.30000000000000004 is 3001.
\*    The map keeps the order of every value the engine computes; fadd gives
\*    the IEEE-754 sums.
\*  - The mask character U+2588 is written MaskChar.
EXTENDS Integers, Sequences, FiniteSets, TLC

VARIABLES
    self_config,     \* self.config: confidence_threshold and context_window
    self_nlp,        \* self.nlp: the language model that was loaded, or "none"
    redaction_log,   \* self.redaction_log
    files,           \* the file system: the documents by path
    ret,             \* the last call: its name, and what it returned or raised
    run              \* the arguments of the call under way

vars == <<self_config, self_nlp, redaction_log, files, ret, run>>

-----------------------------------------------------------------------------
\* Python str operations

CharAt(s, i) == SubSeq(s, i + 1, i + 1)

Slice(s, a, b) == SubSeq(s, a + 1, b)

CharsOf(s) == {SubSeq(s, j, j) : j \in 1..Len(s)}

LowerLetters == "abcdefghijklmnopqrstuvwxyz"

UpperLetters == "ABCDEFGHIJKLMNOPQRSTUVWXYZ"

DigitChars == "0123456789"

Letters == CharsOf(LowerLetters) \cup CharsOf(UpperLetters)

AsciiDigits == CharsOf(DigitChars)

\* \d, \s and \w of a str pattern, on the ASCII characters
Digits == AsciiDigits

Spaces == {" ", "\t", "\n", "\r", "\f"}

WordChars == Letters \cup AsciiDigits \cup {"_"}

IndexIn(s, c) == CHOOSE j \in 1..Len(s) : SubSeq(s, j, j) = c

\* str.lower and str.upper, character by character
to_lower ==
    "A" :> "a" @@ "B" :> "b" @@ "C" :> "c" @@ "D" :> "d" @@ "E" :> "e" @@ "F" :> "f" @@ "G" :> "g" @@
    "H" :> "h" @@ "I" :> "i" @@ "J" :> "j" @@ "K" :> "k" @@ "L" :> "l" @@ "M" :> "m" @@ "N" :> "n" @@
    "O" :> "o" @@ "P" :> "p" @@ "Q" :> "q" @@ "R" :> "r" @@ "S" :> "s" @@ "T" :> "t" @@ "U" :> "u" @@
    "V" :> "v" @@ "W" :> "w" @@ "X" :> "x" @@ "Y" :> "y" @@ "Z" :> "z"

to_upper ==
    "a" :> "A" @@ "b" :> "B" @@ "c" :> "C" @@ "d" :> "D" @@ "e" :> "E" @@ "f" :> "F" @@ "g" :> "G" @@
    "h" :> "H" @@ "i" :> "I" @@ "j" :> "J" @@ "k" :> "K" @@ "l" :> "L" @@ "m" :> "M" @@ "n" :> "N" @@
    "o" :> "O" @@ "p" :> "P" @@ "q" :> "Q" @@ "r" :> "R" @@ "s" :> "S" @@ "t" :> "T" @@ "u" :> "U" @@
    "v" :> "V" @@ "w" :> "W" @@ "x" :> "X" @@ "y" :> "Y" @@ "z" :> "Z"

lower_char(c) == IF c \in DOMAIN to_lower THEN to_lower[c] ELSE c

upper_char(c) == IF c \in DOMAIN to_upper THEN to_upper[c] ELSE c

\* the concatenation of the sequences (or strs) parts[lo..hi], lo <= hi
RECURSIVE concat(_, _, _)
concat(parts, lo, hi) ==
    IF lo = hi THEN parts[lo]
    ELSE LET mid == (lo + hi) \div 2
         IN  concat(parts, lo, mid) \o concat(parts, mid + 1, hi)

lower(s) == IF s = "" THEN "" ELSE concat([j \in 1..Len(s) |-> lower_char(SubSeq(s, j, j))], 1, Len(s))

upper(s) == IF s = "" THEN "" ELSE concat([j \in 1..Len(s) |-> upper_char(SubSeq(s, j, j))], 1, Len(s))

int_digit(c) == IndexIn(DigitChars, c) - 1

isdigit(s) == s /= "" /\ \A j \in 1..Len(s) : SubSeq(s, j, j) \in AsciiDigits

isalpha(s) == s /= "" /\ \A j \in 1..Len(s) : SubSeq(s, j, j) \in Letters

\* re.sub(r'[...]', '', s): s without the characters of the class
re_sub_remove(class, s) ==
    IF s = "" THEN ""
    ELSE concat([j \in 1..Len(s) |-> IF SubSeq(s, j, j) \in class THEN "" ELSE SubSeq(s, j, j)], 1, Len(s))

lstrip(s) ==
    LET lead == CHOOSE k \in 0..Len(s) :
                    /\ \A q \in 1..k : SubSeq(s, q, q) \in Spaces
                    /\ (k = Len(s) \/ SubSeq(s, k + 1, k + 1) \notin Spaces)
    IN  SubSeq(s, lead + 1, Len(s))

rstrip(s) ==
    LET keep == CHOOSE k \in 0..Len(s) :
                    /\ \A q \in (k + 1)..Len(s) : SubSeq(s, q, q) \in Spaces
                    /\ (k = 0 \/ SubSeq(s, k, k) \notin Spaces)
    IN  SubSeq(s, 1, keep)

strip(s) == rstrip(lstrip(s))

\* needle in haystack
contains(haystack, needle) ==
    \E j \in 0..(Len(haystack) - Len(needle)) : Slice(haystack, j, j + Len(needle)) = needle

startswith(s, prefix) == Len(prefix) <= Len(s) /\ SubSeq(s, 1, Len(prefix)) = prefix

\* s.split(sep), for a one-character sep
split(s, sep) ==
    LET seps == {j \in 1..Len(s) : SubSeq(s, j, j) = sep}
        n == Cardinality(seps)
        sep_pos(k) == CHOOSE j \in seps : Cardinality({i \in seps : i < j}) = k - 1
    IN  [k \in 1..(n + 1) |->
            Slice(s, IF k = 1 THEN 0 ELSE sep_pos(k - 1), IF k = n + 1 THEN Len(s) ELSE sep_pos(k) - 1)] \o << >>

Min(a, b) == IF a < b THEN a ELSE b

Max(a, b) == IF a > b THEN a ELSE b

-----------------------------------------------------------------------------
\* Regular expressions (module re), as far as the registry uses them: a
\* backtracking matcher that tries alternatives in order and repeats greedily.
\* All of detect_pii's searches run with re.IGNORECASE.

Unbounded == -1

\* one character of the set S; one character outside S
Chr(S) == [k |-> "chr", s |-> S]

NotChr(S) == [k |-> "notchr", s |-> S]

\* a literal, matched without regard to case (w is in lower case)
Str(w) == [k |-> "str", w |-> w]

Cat(xs) == [k |-> "cat", xs |-> xs]

Alt(xs) == [k |-> "alt", xs |-> xs]

\* x{lo,hi}, greedy
Rep(x, lo, hi) == [k |-> "rep", x |-> x, lo |-> lo, hi |-> hi]

\* ( x ): group 1
Grp(x) == [k |-> "grp", x |-> x]

\* \b
Wb == [k |-> "wb"]

is_word_at(text, i) == i >= 0 /\ i < Len(text) /\ CharAt(text, i) \in WordChars

at_boundary(text, i) == is_word_at(text, i - 1) /= is_word_at(text, i)

char_matches(x, c) == IF x.k = "chr" THEN c \in x.s ELSE c \notin x.s

\* A matcher state is <<position, start of group 1, end of group 1>> (-1: not set).
\* A greedy repeat of a single character class: it takes the longest run the
\* text offers (up to hi) and gives one character back at a time (down to lo).
rx_rep_char(r, text, st) ==
    LET i == st[1]
        cap == IF r.hi = Unbounded THEN Len(text) - i ELSE Min(r.hi, Len(text) - i)
        longest == CHOOSE t \in 0..cap :
                      /\ \A q \in 0..(t - 1) : char_matches(r.x, CharAt(text, i + q))
                      /\ (t = cap \/ ~char_matches(r.x, CharAt(text, i + t)))
        count == Max(0, longest - r.lo + 1)
    IN  [j \in 1..count |-> <<i + longest - (j - 1), st[2], st[3]>>] \o << >>

\* rx_match gives the states in which r can end when started in state st, in
\* the order in which backtracking tries them.
RECURSIVE rx_match(_, _, _)
RECURSIVE rx_cat(_, _, _, _)
RECURSIVE rx_rep(_, _, _, _)

rx_match(r, text, st) ==
    LET i == st[1] IN
    CASE r.k = "chr" ->
           IF i < Len(text) /\ CharAt(text, i) \in r.s THEN << <<i + 1, st[2], st[3]>> >> ELSE << >>
      [] r.k = "notchr" ->
           IF i < Len(text) /\ CharAt(text, i) \notin r.s THEN << <<i + 1, st[2], st[3]>> >> ELSE << >>
      [] r.k = "str" ->
           IF /\ i + Len(r.w) <= Len(text)
              /\ lower_char(CharAt(text, i)) = CharAt(r.w, 0)
              /\ lower(Slice(text, i, i + Len(r.w))) = r.w
           THEN << <<i + Len(r.w), st[2], st[3]>> >> ELSE << >>
      [] r.k = "wb" -> IF at_boundary(text, i) THEN <<st>> ELSE << >>
      [] r.k = "grp" ->
           LET ends == rx_match(r.x, text, st)
           IN  [j \in 1..Len(ends) |-> <<ends[j][1], i, ends[j][1]>>] \o << >>
      [] r.k = "cat" -> rx_cat(r.xs, 1, text, <<st>>)
      [] r.k = "alt" -> concat([j \in 1..Len(r.xs) |-> rx_match(r.xs[j], text, st)], 1, Len(r.xs))
      [] r.k = "rep" -> IF r.x.k \in {"chr", "notchr"} THEN rx_rep_char(r, text, st)
                        ELSE rx_rep(r, 0, text, st)

\* items n.. of a concatenation, from each of the states sts in order
rx_cat(xs, n, text, sts) ==
    IF n > Len(xs) \/ sts = << >> THEN sts
    ELSE rx_cat(xs, n + 1, text,
                concat([j \in 1..Len(sts) |-> rx_match(xs[n], text, sts[j])], 1, Len(sts)))

\* a greedy repeat that has made `done` iterations: one more first (an empty
\* iteration is not repeated), then stop
rx_rep(r, done, text, st) ==
    LET sts == IF r.hi = Unbounded \/ done < r.hi THEN rx_match(r.x, text, st) ELSE << >>
        more == IF sts = << >> THEN << >>
                ELSE concat([j \in 1..Len(sts) |->
                                IF sts[j][1] > st[1] THEN rx_rep(r, done + 1, text, sts[j]) ELSE << >>],
                            1, Len(sts))
        stop == IF done >= r.lo THEN <<st>> ELSE << >>
    IN  more \o stop

\* pattern.match at position pos: the first successful state, or << >>
rx_match_at(r, text, pos) ==
    LET ends == rx_match(r, text, <<pos, -1, -1>>)
    IN  IF ends = << >> THEN << >> ELSE ends[1]

\* the matches among at[pos..], left to right, each [start, end, gstart, gend];
\* the search resumes where a match ended (one further on after an empty match)
RECURSIVE scan(_, _)
scan(at, pos) ==
    LET hits == {p \in pos..(Len(at) - 1) : at[p + 1] /= << >>}
    IN  IF hits = {} THEN << >>
        ELSE LET p == CHOOSE q \in hits : \A h \in hits : q <= h
                 m == at[p + 1]
             IN  << [start |-> p, end |-> m[1], gstart |-> m[2], gend |-> m[3]] >>
                 \o scan(at, IF m[1] > p THEN m[1] ELSE p + 1)

\* re.finditer(pattern, text)
finditer(r, text) ==
    scan([p \in 1..(Len(text) + 1) |-> rx_match_at(r, text, p - 1)] \o << >>, 0)

-----------------------------------------------------------------------------
\* The validators

multiplication_table ==
    << <<0, 1, 2, 3, 4, 5, 6, 7, 8, 9>>,
       <<1, 2, 3, 4, 0, 6, 7, 8, 9, 5>>,
       <<2, 3, 4, 0, 1, 7, 8, 9, 5, 6>>,
       <<3, 4, 0, 1, 2, 8, 9, 5, 6, 7>>,
       <<4, 0, 1, 2, 3, 9, 5, 6, 7, 8>>,
       <<5, 9, 8, 7, 6, 0, 4, 3, 2, 1>>,
       <<6, 5, 9, 8, 7, 1, 0, 4, 3, 2>>,
       <<7, 6, 5, 9, 8, 2, 1, 0, 4, 3>>,
       <<8, 7, 6, 5, 9, 3, 2, 1, 0, 4>>,
       <<9, 8, 7, 6, 5, 4, 3, 2, 1, 0>> >>

permutation_table ==
    << <<0, 1, 2, 3, 4, 5, 6, 7, 8, 9>>,
       <<1, 5, 7, 6, 2, 8, 3, 0, 9, 4>>,
       <<5, 8, 0, 3, 7, 9, 6, 1, 4, 2>>,
       <<8, 9, 1, 6, 0, 4, 3, 5, 2, 7>>,
       <<9, 4, 5, 3, 1, 2, 6, 8, 7, 0>>,
       <<4, 2, 8, 6, 5, 7, 3, 9, 0, 1>>,
       <<2, 7, 9, 3, 8, 0, 6, 4, 1, 5>>,
       <<7, 0, 4, 6, 9, 1, 3, 2, 5, 8>> >>

AadhaarLen == 12

\* a Verhoeff loop that leaves out the position's permutation
verhoeff_step_unpermuted(checksum, i, d) ==
    multiplication_table[checksum + 1][d + 1]

\* one iteration of the Verhoeff loop: the i-th digit from the end, of value d
verhoeff_step(checksum, i, d) ==
    multiplication_table[checksum + 1][permutation_table[(i % 8) + 1][d + 1] + 1]

\* the loop over reversed(digits), from its i-th iteration on
RECURSIVE verhoeff_loop(_, _, _)
verhoeff_loop(digits, i, checksum) ==
    IF i >= Len(digits) THEN checksum
    ELSE verhoeff_loop(digits, i + 1,
                       verhoeff_step(checksum, i, int_digit(CharAt(digits, Len(digits) - 1 - i))))

aadhaar_degenerate(digits) == digits = "000000000000" \/ digits = "111111111111"

\* a validation that stops before the Verhoeff loop
aadhaar_unchecked(number) ==
    LET digits == re_sub_remove(Spaces \cup {"-"}, number)
    IN  Len(digits) = AadhaarLen /\ isdigit(digits) /\ ~aadhaar_degenerate(digits)

_validate_aadhaar(number) ==
    LET digits == re_sub_remove(Spaces \cup {"-"}, number)
    IN  IF Len(digits) /= AadhaarLen \/ ~isdigit(digits) THEN FALSE
        ELSE IF aadhaar_degenerate(digits) THEN FALSE
        ELSE verhoeff_loop(digits, 0, 0) = 0

\* re.match(r'^[A-Z]{5}\d{4}[A-Z]$', pan): $ also matches before a final newline
_validate_pan(pan0) ==
    LET pan == upper(pan0)
        body == IF Len(pan) = 11 /\ CharAt(pan, 10) = "\n" THEN Slice(pan, 0, 10) ELSE pan
    IN  IF ~(/\ Len(body) = 10
             /\ \A j \in 0..4 : CharAt(body, j) \in CharsOf(UpperLetters)
             /\ isdigit(Slice(body, 5, 9))
             /\ CharAt(body, 9) \in CharsOf(UpperLetters))
        THEN FALSE
        ELSE IF Slice(pan, 0, 5) = "AAAAA" \/ Slice(pan, 5, 9) = "0000" THEN FALSE
        ELSE TRUE

_validate_dl(dl0) ==
    LET dl == re_sub_remove(Spaces \cup {"-"}, dl0)
    IN  Len(dl) = 15 /\ isalpha(Slice(dl, 0, 2)) /\ isdigit(Slice(dl, 2, Len(dl)))

_validate_passport(passport) == Len(passport) >= 7 /\ isalpha(CharAt(passport, 0))

_validate_voter_id(voter_id) ==
    Len(voter_id) = 10 /\ isalpha(Slice(voter_id, 0, 3)) /\ isdigit(Slice(voter_id, 3, Len(voter_id)))

CardMinLen == 13

CardMaxLen == 19

\* a Luhn loop that doubles no digit
luhn_step_undoubled(total, i, d0) == total + d0

\* one iteration of the Luhn loop: the i-th digit from the end, of value d0
luhn_step(total, i, d0) ==
    LET doubled == d0 * 2
        n == IF i % 2 = 1 THEN (IF doubled > 9 THEN doubled - 9 ELSE doubled) ELSE d0
    IN  total + n

RECURSIVE luhn_loop(_, _, _)
luhn_loop(digits, i, total) ==
    IF i >= Len(digits) THEN total
    ELSE luhn_loop(digits, i + 1, luhn_step(total, i, int_digit(CharAt(digits, Len(digits) - 1 - i))))

_validate_credit_card(number) ==
    LET digits == re_sub_remove(Spaces \cup {"-"}, number)
    IN  IF ~isdigit(digits) \/ Len(digits) < CardMinLen \/ Len(digits) > CardMaxLen THEN FALSE
        ELSE luhn_loop(digits, 0, 0) % 10 = 0

_validate_bank_account(account) == 9 <= Len(account) /\ Len(account) <= 18 /\ isdigit(account)

_validate_ifsc(ifsc) == Len(ifsc) = 11 /\ isalpha(Slice(ifsc, 0, 4)) /\ CharAt(ifsc, 4) = "0"

_validate_mobile(number) ==
    LET stripped == re_sub_remove(Spaces \cup {"-", "+"}, number)
        digits == IF startswith(stripped, "91") THEN Slice(stripped, 2, Len(stripped)) ELSE stripped
    IN  Len(digits) = 10 /\ CharAt(digits, 0) \in {"6", "7", "8", "9"} /\ isdigit(digits)

_validate_email(email) ==
    LET parts == split(email, "@")
    IN  contains(email, "@") /\ contains(parts[2], ".") /\ Len(parts) = 2

_validate_pincode(pincode) == Len(pincode) = 6 /\ isdigit(pincode) /\ ~startswith(pincode, "0")

_validate_address(address) ==
    /\ Len(strip(address)) > 10
    /\ \E word \in {"house", "flat", "plot", "street", "road", "city", "state"} :
          contains(lower(address), word)

_validate_name(name0) ==
    LET name == strip(name0)
    IN  /\ 2 <= Len(name) /\ Len(name) <= 50
        /\ \A j \in 0..(Len(name) - 1) : CharAt(name, j) \in Letters \/ CharAt(name, j) \in Spaces

_validate_biometric(bio_id) == 12 <= Len(bio_id) /\ Len(bio_id) <= 16 /\ isdigit(bio_id)

\* re.match(r'^\d{2}-\d{4}-\d{4}-\d{4}$', health_id)
_validate_health_id(health_id0) ==
    LET h == IF Len(health_id0) = 18 /\ CharAt(health_id0, 17) = "\n" THEN Slice(health_id0, 0, 17) ELSE health_id0
    IN  /\ Len(h) = 17
        /\ isdigit(Slice(h, 0, 2)) /\ CharAt(h, 2) = "-"
        /\ isdigit(Slice(h, 3, 7)) /\ CharAt(h, 7) = "-"
        /\ isdigit(Slice(h, 8, 12)) /\ CharAt(h, 12) = "-"
        /\ isdigit(Slice(h, 13, 17))

\* int(s) of a string of decimal digits
RECURSIVE int_of(_, _)
int_of(s, acc) == IF s = "" THEN acc ELSE int_of(Tail(s), acc * 10 + int_digit(Head(s)))

\* int(age) raises ValueError unless age is a decimal number
age_raises(age) == ~isdigit(strip(age))

_validate_age(age) == 0 <= int_of(strip(age), 0) /\ int_of(strip(age), 0) <= 150

\* strptime's fields: %d is 3[0-1]|[1-2]\d|0[1-9]|[1-9]| [1-9], %m is
\* 1[0-2]|0[1-9]|[1-9], %Y is \d\d\d\d; the whole string has to be used up
strptime_d(f) ==
    \/ isdigit(f) /\ Len(f) \in {1, 2} /\ int_of(f, 0) \in 1..31
    \/ Len(f) = 2 /\ CharAt(f, 0) = " " /\ CharAt(f, 1) \in (AsciiDigits \ {"0"})

strptime_m(f) == isdigit(f) /\ Len(f) \in {1, 2} /\ int_of(f, 0) \in 1..12

strptime_Y(f) == isdigit(f) /\ Len(f) = 4

is_leap(y) == (y % 4 = 0 /\ y % 100 /= 0) \/ y % 400 = 0

days_in_month(y, m) ==
    IF m = 2 THEN (IF is_leap(y) THEN 29 ELSE 28)
    ELSE IF m \in {4, 6, 9, 11} THEN 30 ELSE 31

\* datetime.strptime(date_str, fmt) does not raise ValueError; fmt is the three
\* directives in `order` joined by sep
strptime_ok(date_str, order, sep) ==
    LET fields == split(date_str, sep)
        at(directive) == fields[CHOOSE j \in 1..3 : order[j] = directive]
    IN  /\ Len(fields) = 3
        /\ strptime_d(at("d")) /\ strptime_m(at("m")) /\ strptime_Y(at("Y"))
        /\ int_of(at("Y"), 0) >= 1
        /\ int_of(strip(at("d")), 0) <= days_in_month(int_of(at("Y"), 0), int_of(at("m"), 0))

date_formats ==
    << <<"d", "m", "Y", "/">>, <<"m", "d", "Y", "/">>, <<"Y", "m", "d", "/">>,
       <<"d", "m", "Y", "-">>, <<"m", "d", "Y", "-">>, <<"Y", "m", "d", "-">> >>

_validate_date(date_str) ==
    \E n \in 1..Len(date_formats) :
        strptime_ok(date_str, SubSeq(date_formats[n], 1, 3), date_formats[n][4])

\* config["validation"](match_text)
validation(name, match_text) ==
    CASE name = "_validate_aadhaar" -> _validate_aadhaar(match_text)
      [] name = "_validate_pan" -> _validate_pan(match_text)
      [] name = "_validate_dl" -> _validate_dl(match_text)
      [] name = "_validate_passport" -> _validate_passport(match_text)
      [] name = "_validate_voter_id" -> _validate_voter_id(match_text)
      [] name = "_validate_credit_card" -> _validate_credit_card(match_text)
      [] name = "_validate_bank_account" -> _validate_bank_account(match_text)
      [] name = "_validate_ifsc" -> _validate_ifsc(match_text)
      [] name = "_validate_mobile" -> _validate_mobile(match_text)
      [] name = "_validate_email" -> _validate_email(match_text)
      [] name = "_validate_date" -> _validate_date(match_text)
      [] name = "_validate_age" -> _validate_age(match_text)
      [] name = "_validate_pincode" -> _validate_pincode(match_text)
      [] name = "_validate_address" -> _validate_address(match_text)
      [] name = "_validate_name" -> _validate_name(match_text)
      [] name = "_validate_biometric" -> _validate_biometric(match_text)
      [] name = "_validate_health_id" -> _validate_health_id(match_text)

\* the call raises instead of returning
validation_raises(name, match_text) == name = "_validate_age" /\ age_raises(match_text)

-----------------------------------------------------------------------------
\* The pattern registry (_get_comprehensive_patterns): each regular expression
\* of the source, written as a term of the matcher above.

AADHAAR_patterns ==
    \* \b\d{4}[-\s]?\d{4}[-\s]?\d{4}\b
    << Cat(<<Wb, Rep(Chr(Digits), 4, 4), Rep(Chr(Spaces \cup CharsOf("-")), 0, 1), Rep(Chr(Digits), 4, 4), Rep(Chr(Spaces \cup CharsOf("-")), 0, 1), Rep(Chr(Digits), 4, 4), Wb>>),
    \* \b\d{12}\b
       Cat(<<Wb, Rep(Chr(Digits), 12, 12), Wb>>),
    \* (?i)(?:aadhaar|aadhar|uid)[-\s:]*(?:no|number|#)?[-\s:]*(\d{4}[-\s]?\d{4}[-\s]?\d{4})
       Cat(<<Alt(<<Str("aadhaar"), Str("aadhar"), Str("uid")>>), Rep(Chr(Spaces \cup CharsOf("-:")), 0, Unbounded), Rep(Alt(<<Str("no"), Str("number"), Str("#")>>), 0, 1), Rep(Chr(Spaces \cup CharsOf("-:")), 0, Unbounded), Grp(Cat(<<Rep(Chr(Digits), 4, 4), Rep(Chr(Spaces \cup CharsOf("-")), 0, 1), Rep(Chr(Digits), 4, 4), Rep(Chr(Spaces \cup CharsOf("-")), 0, 1), Rep(Chr(Digits), 4, 4)>>))>>),
    \* (?i)(?:aadhaar|aadhar|uid)[-\s:]*(?:no|number|#)?[-\s:]*(\d{12})
       Cat(<<Alt(<<Str("aadhaar"), Str("aadhar"), Str("uid")>>), Rep(Chr(Spaces \cup CharsOf("-:")), 0, Unbounded), Rep(Alt(<<Str("no"), Str("number"), Str("#")>>), 0, 1), Rep(Chr(Spaces \cup CharsOf("-:")), 0, Unbounded), Grp(Rep(Chr(Digits), 12, 12))>>) >>

PAN_patterns ==
    \* \b[A-Z]{5}\d{4}[A-Z]\b
    << Cat(<<Wb, Rep(Chr(Letters), 5, 5), Rep(Chr(Digits), 4, 4), Chr(Letters), Wb>>),
    \* (?i)(?:pan|permanent.*account)[-\s:]*(?:no|number|#)?[-\s:]*([A-Z]{5}\d{4}[A-Z])
       Cat(<<Alt(<<Str("pan"), Cat(<<Str("permanent"), Rep(NotChr(CharsOf("\n")), 0, Unbounded), Str("account")>>)>>), Rep(Chr(Spaces \cup CharsOf("-:")), 0, Unbounded), Rep(Alt(<<Str("no"), Str("number"), Str("#")>>), 0, 1), Rep(Chr(Spaces \cup CharsOf("-:")), 0, Unbounded), Grp(Cat(<<Rep(Chr(Letters), 5, 5), Rep(Chr(Digits), 4, 4), Chr(Letters)>>))>>) >>

DRIVING_LICENSE_patterns ==
    \* \b[A-Z]{2}[-\s]?\d{2}[-\s]?\d{4}[-\s]?\d{7}\b
    << Cat(<<Wb, Rep(Chr(Letters), 2, 2), Rep(Chr(Spaces \cup CharsOf("-")), 0, 1), Rep(Chr(Digits), 2, 2), Rep(Chr(Spaces \cup CharsOf("-")), 0, 1), Rep(Chr(Digits), 4, 4), Rep(Chr(Spaces \cup CharsOf("-")), 0, 1), Rep(Chr(Digits), 7, 7), Wb>>),
    \* \b[A-Z]{2}\d{13}\b
       Cat(<<Wb, Rep(Chr(Letters), 2, 2), Rep(Chr(Digits), 13, 13), Wb>>),
    \* (?i)(?:driving.*license|dl)[-\s:]*(?:no|number|#)?[-\s:]*([A-Z]{2}[-\s]?\d{2}[-\s]?\d{4}[-\s]?\d{7})
       Cat(<<Alt(<<Cat(<<Str("driving"), Rep(NotChr(CharsOf("\n")), 0, Unbounded), Str("license")>>), Str("dl")>>), Rep(Chr(Spaces \cup CharsOf("-:")), 0, Unbounded), Rep(Alt(<<Str("no"), Str("number"), Str("#")>>), 0, 1), Rep(Chr(Spaces \cup CharsOf("-:")), 0, Unbounded), Grp(Cat(<<Rep(Chr(Letters), 2, 2), Rep(Chr(Spaces \cup CharsOf("-")), 0, 1), Rep(Chr(Digits), 2, 2), Rep(Chr(Spaces \cup CharsOf("-")), 0, 1), Rep(Chr(Digits), 4, 4), Rep(Chr(Spaces \cup CharsOf("-")), 0, 1), Rep(Chr(Digits), 7, 7)>>))>>) >>

PASSPORT_patterns ==
    \* \b[A-Z]\d{7}\b
    << Cat(<<Wb, Chr(Letters), Rep(Chr(Digits), 7, 7), Wb>>),
    \* \b[A-Z]{2}\d{6}\b
       Cat(<<Wb, Rep(Chr(Letters), 2, 2), Rep(Chr(Digits), 6, 6), Wb>>),
    \* (?i)(?:passport)[-\s:]*(?:no|number|#)?[-\s:]*([A-Z]\d{7})
       Cat(<<Str("passport"), Rep(Chr(Spaces \cup CharsOf("-:")), 0, Unbounded), Rep(Alt(<<Str("no"), Str("number"), Str("#")>>), 0, 1), Rep(Chr(Spaces \cup CharsOf("-:")), 0, Unbounded), Grp(Cat(<<Chr(Letters), Rep(Chr(Digits), 7, 7)>>))>>) >>

VOTER_ID_patterns ==
    \* \b[A-Z]{3}\d{7}\b
    << Cat(<<Wb, Rep(Chr(Letters), 3, 3), Rep(Chr(Digits), 7, 7), Wb>>),
    \* \b[A-Z]{2}[A-Z0-9]\d{6}\b
       Cat(<<Wb, Rep(Chr(Letters), 2, 2), Chr(Letters \cup AsciiDigits), Rep(Chr(Digits), 6, 6), Wb>>),
    \* (?i)(?:voter.*id|epic)[-\s:]*(?:no|number|#)?[-\s:]*([A-Z]{3}\d{7})
       Cat(<<Alt(<<Cat(<<Str("voter"), Rep(NotChr(CharsOf("\n")), 0, Unbounded), Str("id")>>), Str("epic")>>), Rep(Chr(Spaces \cup CharsOf("-:")), 0, Unbounded), Rep(Alt(<<Str("no"), Str("number"), Str("#")>>), 0, 1), Rep(Chr(Spaces \cup CharsOf("-:")), 0, Unbounded), Grp(Cat(<<Rep(Chr(Letters), 3, 3), Rep(Chr(Digits), 7, 7)>>))>>) >>

CREDIT_CARD_patterns ==
    \* \b(?:\d{4}[-\s]?){3}\d{4}\b
    << Cat(<<Wb, Rep(Cat(<<Rep(Chr(Digits), 4, 4), Rep(Chr(Spaces \cup CharsOf("-")), 0, 1)>>), 3, 3), Rep(Chr(Digits), 4, 4), Wb>>),
    \* \b\d{13,19}\b
       Cat(<<Wb, Rep(Chr(Digits), 13, 19), Wb>>),
    \* (?i)(?:credit|debit|card)[-\s:]*(?:no|number|#)?[-\s:]*(\d{4}[-\s]?\d{4}[-\s]?\d{4}[-\s]?\d{4})
       Cat(<<Alt(<<Str("credit"), Str("debit"), Str("card")>>), Rep(Chr(Spaces \cup CharsOf("-:")), 0, Unbounded), Rep(Alt(<<Str("no"), Str("number"), Str("#")>>), 0, 1), Rep(Chr(Spaces \cup CharsOf("-:")), 0, Unbounded), Grp(Cat(<<Rep(Chr(Digits), 4, 4), Rep(Chr(Spaces \cup CharsOf("-")), 0, 1), Rep(Chr(Digits), 4, 4), Rep(Chr(Spaces \cup CharsOf("-")), 0, 1), Rep(Chr(Digits), 4, 4), Rep(Chr(Spaces \cup CharsOf("-")), 0, 1), Rep(Chr(Digits), 4, 4)>>))>>) >>

BANK_ACCOUNT_patterns ==
    \* \b\d{9,18}\b
    << Cat(<<Wb, Rep(Chr(Digits), 9, 18), Wb>>),
    \* (?i)(?:account)[-\s:]*(?:no|number|#)?[-\s:]*(\d{9,18})
       Cat(<<Str("account"), Rep(Chr(Spaces \cup CharsOf("-:")), 0, Unbounded), Rep(Alt(<<Str("no"), Str("number"), Str("#")>>), 0, 1), Rep(Chr(Spaces \cup CharsOf("-:")), 0, Unbounded), Grp(Rep(Chr(Digits), 9, 18))>>) >>

IFSC_patterns ==
    \* \b[A-Z]{4}0[A-Z0-9]{6}\b
    << Cat(<<Wb, Rep(Chr(Letters), 4, 4), Str("0"), Rep(Chr(Letters \cup AsciiDigits), 6, 6), Wb>>),
    \* (?i)(?:ifsc)[-\s:]*(?:code)?[-\s:]*([A-Z]{4}0[A-Z0-9]{6})
       Cat(<<Str("ifsc"), Rep(Chr(Spaces \cup CharsOf("-:")), 0, Unbounded), Rep(Str("code"), 0, 1), Rep(Chr(Spaces \cup CharsOf("-:")), 0, Unbounded), Grp(Cat(<<Rep(Chr(Letters), 4, 4), Str("0"), Rep(Chr(Letters \cup AsciiDigits), 6, 6)>>))>>) >>

MOBILE_patterns ==
    \* \b(?:\+91[-\s]?)?\d{10}\b
    << Cat(<<Wb, Rep(Cat(<<Str("+91"), Rep(Chr(Spaces \cup CharsOf("-")), 0, 1)>>), 0, 1), Rep(Chr(Digits), 10, 10), Wb>>),
    \* \b91[-\s]?\d{10}\b
       Cat(<<Wb, Str("91"), Rep(Chr(Spaces \cup CharsOf("-")), 0, 1), Rep(Chr(Digits), 10, 10), Wb>>),
    \* (?i)(?:mobile|phone|contact)[-\s:]*(?:no|number|#)?[-\s:]*(\+?91[-\s]?\d{10})
       Cat(<<Alt(<<Str("mobile"), Str("phone"), Str("contact")>>), Rep(Chr(Spaces \cup CharsOf("-:")), 0, Unbounded), Rep(Alt(<<Str("no"), Str("number"), Str("#")>>), 0, 1), Rep(Chr(Spaces \cup CharsOf("-:")), 0, Unbounded), Grp(Cat(<<Rep(Str("+"), 0, 1), Str("91"), Rep(Chr(Spaces \cup CharsOf("-")), 0, 1), Rep(Chr(Digits), 10, 10)>>))>>),
    \* (?i)(?:mobile|phone|contact)[-\s:]*(?:no|number|#)?[-\s:]*(\d{10})
       Cat(<<Alt(<<Str("mobile"), Str("phone"), Str("contact")>>), Rep(Chr(Spaces \cup CharsOf("-:")), 0, Unbounded), Rep(Alt(<<Str("no"), Str("number"), Str("#")>>), 0, 1), Rep(Chr(Spaces \cup CharsOf("-:")), 0, Unbounded), Grp(Rep(Chr(Digits), 10, 10))>>) >>

EMAIL_patterns ==
    \* \b[A-Za-z0-9._%+-]+@[A-Za-z0-9.-]+\.[A-Z|a-z]{2,}\b
    << Cat(<<Wb, Rep(Chr(Letters \cup AsciiDigits \cup CharsOf("._%+-")), 1, Unbounded), Str("@"), Rep(Chr(Letters \cup AsciiDigits \cup CharsOf(".-")), 1, Unbounded), Str("."), Rep(Chr(Letters \cup CharsOf("|")), 2, Unbounded), Wb>>),
    \* (?i)(?:email|mail)[-\s:]*(?:id|address)?[-\s:]*([A-Za-z0-9._%+-]+@[A-Za-z0-9.-]+\.[A-Z|a-z]{2,})
       Cat(<<Alt(<<Str("email"), Str("mail")>>), Rep(Chr(Spaces \cup CharsOf("-:")), 0, Unbounded), Rep(Alt(<<Str("id"), Str("address")>>), 0, 1), Rep(Chr(Spaces \cup CharsOf("-:")), 0, Unbounded), Grp(Cat(<<Rep(Chr(Letters \cup AsciiDigits \cup CharsOf("._%+-")), 1, Unbounded), Str("@"), Rep(Chr(Letters \cup AsciiDigits \cup CharsOf(".-")), 1, Unbounded), Str("."), Rep(Chr(Letters \cup CharsOf("|")), 2, Unbounded)>>))>>) >>

DOB_patterns ==
    \* \b(?:\d{1,2}[-/]\d{1,2}[-/]\d{2,4})\b
    << Cat(<<Wb, Cat(<<Rep(Chr(Digits), 1, 2), Chr(CharsOf("-/")), Rep(Chr(Digits), 1, 2), Chr(CharsOf("-/")), Rep(Chr(Digits), 2, 4)>>), Wb>>),
    \* \b(?:\d{2,4}[-/]\d{1,2}[-/]\d{1,2})\b
       Cat(<<Wb, Cat(<<Rep(Chr(Digits), 2, 4), Chr(CharsOf("-/")), Rep(Chr(Digits), 1, 2), Chr(CharsOf("-/")), Rep(Chr(Digits), 1, 2)>>), Wb>>),
    \* (?i)(?:dob|date.*birth|born)[-\s:]*(\d{1,2}[-/]\d{1,2}[-/]\d{2,4})
       Cat(<<Alt(<<Str("dob"), Cat(<<Str("date"), Rep(NotChr(CharsOf("\n")), 0, Unbounded), Str("birth")>>), Str("born")>>), Rep(Chr(Spaces \cup CharsOf("-:")), 0, Unbounded), Grp(Cat(<<Rep(Chr(Digits), 1, 2), Chr(CharsOf("-/")), Rep(Chr(Digits), 1, 2), Chr(CharsOf("-/")), Rep(Chr(Digits), 2, 4)>>))>>) >>

AGE_patterns ==
    \* \b(?:age|aged)?\s*:?\s*(\d{1,3})\s*(?:years?|yrs?|y/o)?\b
    << Cat(<<Wb, Rep(Alt(<<Str("age"), Str("aged")>>), 0, 1), Rep(Chr(Spaces), 0, Unbounded), Rep(Str(":"), 0, 1), Rep(Chr(Spaces), 0, Unbounded), Grp(Rep(Chr(Digits), 1, 3)), Rep(Chr(Spaces), 0, Unbounded), Rep(Alt(<<Cat(<<Str("year"), Rep(Str("s"), 0, 1)>>), Cat(<<Str("yr"), Rep(Str("s"), 0, 1)>>), Str("y/o")>>), 0, 1), Wb>>),
    \* (?i)(?:age)[-\s:]*(\d{1,3})
       Cat(<<Str("age"), Rep(Chr(Spaces \cup CharsOf("-:")), 0, Unbounded), Grp(Rep(Chr(Digits), 1, 3))>>) >>

PINCODE_patterns ==
    \* \b\d{6}\b
    << Cat(<<Wb, Rep(Chr(Digits), 6, 6), Wb>>),
    \* (?i)(?:pin|pincode|postal)[-\s:]*(?:code)?[-\s:]*(\d{6})
       Cat(<<Alt(<<Str("pin"), Str("pincode"), Str("postal")>>), Rep(Chr(Spaces \cup CharsOf("-:")), 0, Unbounded), Rep(Str("code"), 0, 1), Rep(Chr(Spaces \cup CharsOf("-:")), 0, Unbounded), Grp(Rep(Chr(Digits), 6, 6))>>) >>

ADDRESS_patterns ==
    \* (?i)\b(?:house|flat|plot|door|room|block|building|apartment|complex|colony|nagar|layout|area|sector|phase|street|road|lane|avenue|cross|main|circle|square|park|garden|residency|estate|township|enclave|extension|vihar|puram|city|town|village|dist|district|state|country)[\s\w\d,.-]{5,200}
    << Cat(<<Wb, Alt(<<Str("house"), Str("flat"), Str("plot"), Str("door"), Str("room"), Str("block"), Str("building"), Str("apartment"), Str("complex"), Str("colony"), Str("nagar"), Str("layout"), Str("area"), Str("sector"), Str("phase"), Str("street"), Str("road"), Str("lane"), Str("avenue"), Str("cross"), Str("main"), Str("circle"), Str("square"), Str("park"), Str("garden"), Str("residency"), Str("estate"), Str("township"), Str("enclave"), Str("extension"), Str("vihar"), Str("puram"), Str("city"), Str("town"), Str("village"), Str("dist"), Str("district"), Str("state"), Str("country")>>), Rep(Chr(Spaces \cup WordChars \cup Digits \cup CharsOf(",.-")), 5, 200)>>),
    \* (?i)(?:address|residence)[-\s:]*([^,\n]{10,200})
       Cat(<<Alt(<<Str("address"), Str("residence")>>), Rep(Chr(Spaces \cup CharsOf("-:")), 0, Unbounded), Grp(Rep(NotChr(CharsOf(",\n")), 10, 200))>>) >>

NAME_patterns ==
    \* (?i)(?:name|first.*name|last.*name|full.*name)[-\s:]*([A-Za-z\s]{2,50})
    << Cat(<<Alt(<<Str("name"), Cat(<<Str("first"), Rep(NotChr(CharsOf("\n")), 0, Unbounded), Str("name")>>), Cat(<<Str("last"), Rep(NotChr(CharsOf("\n")), 0, Unbounded), Str("name")>>), Cat(<<Str("full"), Rep(NotChr(CharsOf("\n")), 0, Unbounded), Str("name")>>)>>), Rep(Chr(Spaces \cup CharsOf("-:")), 0, Unbounded), Grp(Rep(Chr(Letters \cup Spaces), 2, 50))>>),
    \* \b[A-Z][a-z]+\s+[A-Z][a-z]+(?:\s+[A-Z][a-z]+)?\b
       Cat(<<Wb, Chr(Letters), Rep(Chr(Letters), 1, Unbounded), Rep(Chr(Spaces), 1, Unbounded), Chr(Letters), Rep(Chr(Letters), 1, Unbounded), Rep(Cat(<<Rep(Chr(Spaces), 1, Unbounded), Chr(Letters), Rep(Chr(Letters), 1, Unbounded)>>), 0, 1), Wb>>) >>

FATHER_NAME_patterns ==
    \* (?i)(?:father.*name|s/o|son.*of)[-\s:]*([A-Za-z\s]{2,50})
    << Cat(<<Alt(<<Cat(<<Str("father"), Rep(NotChr(CharsOf("\n")), 0, Unbounded), Str("name")>>), Str("s/o"), Cat(<<Str("son"), Rep(NotChr(CharsOf("\n")), 0, Unbounded), Str("of")>>)>>), Rep(Chr(Spaces \cup CharsOf("-:")), 0, Unbounded), Grp(Rep(Chr(Letters \cup Spaces), 2, 50))>>),
    \* (?i)(?:father)[-\s:]*([A-Za-z\s]{2,50})
       Cat(<<Str("father"), Rep(Chr(Spaces \cup CharsOf("-:")), 0, Unbounded), Grp(Rep(Chr(Letters \cup Spaces), 2, 50))>>) >>

MOTHER_NAME_patterns ==
    \* (?i)(?:mother.*name|d/o|daughter.*of|w/o|wife.*of)[-\s:]*([A-Za-z\s]{2,50})
    << Cat(<<Alt(<<Cat(<<Str("mother"), Rep(NotChr(CharsOf("\n")), 0, Unbounded), Str("name")>>), Str("d/o"), Cat(<<Str("daughter"), Rep(NotChr(CharsOf("\n")), 0, Unbounded), Str("of")>>), Str("w/o"), Cat(<<Str("wife"), Rep(NotChr(CharsOf("\n")), 0, Unbounded), Str("of")>>)>>), Rep(Chr(Spaces \cup CharsOf("-:")), 0, Unbounded), Grp(Rep(Chr(Letters \cup Spaces), 2, 50))>>),
    \* (?i)(?:mother)[-\s:]*([A-Za-z\s]{2,50})
       Cat(<<Str("mother"), Rep(Chr(Spaces \cup CharsOf("-:")), 0, Unbounded), Grp(Rep(Chr(Letters \cup Spaces), 2, 50))>>) >>

BIOMETRIC_ID_patterns ==
    \* \b\d{12,16}\b
    << Cat(<<Wb, Rep(Chr(Digits), 12, 16), Wb>>),
    \* (?i)(?:biometric|fingerprint|iris)[-\s:]*(?:id|number)?[-\s:]*(\d{12,16})
       Cat(<<Alt(<<Str("biometric"), Str("fingerprint"), Str("iris")>>), Rep(Chr(Spaces \cup CharsOf("-:")), 0, Unbounded), Rep(Alt(<<Str("id"), Str("number")>>), 0, 1), Rep(Chr(Spaces \cup CharsOf("-:")), 0, Unbounded), Grp(Rep(Chr(Digits), 12, 16))>>) >>

HEALTH_ID_patterns ==
    \* \b\d{2}-\d{4}-\d{4}-\d{4}\b
    << Cat(<<Wb, Rep(Chr(Digits), 2, 2), Str("-"), Rep(Chr(Digits), 4, 4), Str("-"), Rep(Chr(Digits), 4, 4), Str("-"), Rep(Chr(Digits), 4, 4), Wb>>),
    \* (?i)(?:health.*id|abha|medical.*id)[-\s:]*(\d{2}-\d{4}-\d{4}-\d{4})
       Cat(<<Alt(<<Cat(<<Str("health"), Rep(NotChr(CharsOf("\n")), 0, Unbounded), Str("id")>>), Str("abha"), Cat(<<Str("medical"), Rep(NotChr(CharsOf("\n")), 0, Unbounded), Str("id")>>)>>), Rep(Chr(Spaces \cup CharsOf("-:")), 0, Unbounded), Grp(Cat(<<Rep(Chr(Digits), 2, 2), Str("-"), Rep(Chr(Digits), 4, 4), Str("-"), Rep(Chr(Digits), 4, 4), Str("-"), Rep(Chr(Digits), 4, 4)>>))>>) >>

\* self.patterns, in the order of the dict
patterns ==
    << [pii_type |-> "AADHAAR", patterns |-> AADHAAR_patterns, validation |-> "_validate_aadhaar", priority |-> 1],
       [pii_type |-> "PAN", patterns |-> PAN_patterns, validation |-> "_validate_pan", priority |-> 1],
       [pii_type |-> "DRIVING_LICENSE", patterns |-> DRIVING_LICENSE_patterns, validation |-> "_validate_dl", priority |-> 2],
       [pii_type |-> "PASSPORT", patterns |-> PASSPORT_patterns, validation |-> "_validate_passport", priority |-> 2],
       [pii_type |-> "VOTER_ID", patterns |-> VOTER_ID_patterns, validation |-> "_validate_voter_id", priority |-> 2],
       [pii_type |-> "CREDIT_CARD", patterns |-> CREDIT_CARD_patterns, validation |-> "_validate_credit_card", priority |-> 1],
       [pii_type |-> "BANK_ACCOUNT", patterns |-> BANK_ACCOUNT_patterns, validation |-> "_validate_bank_account", priority |-> 2],
       [pii_type |-> "IFSC", patterns |-> IFSC_patterns, validation |-> "_validate_ifsc", priority |-> 2],
       [pii_type |-> "MOBILE", patterns |-> MOBILE_patterns, validation |-> "_validate_mobile", priority |-> 1],
       [pii_type |-> "EMAIL", patterns |-> EMAIL_patterns, validation |-> "_validate_email", priority |-> 1],
       [pii_type |-> "DOB", patterns |-> DOB_patterns, validation |-> "_validate_date", priority |-> 1],
       [pii_type |-> "AGE", patterns |-> AGE_patterns, validation |-> "_validate_age", priority |-> 3],
       [pii_type |-> "PINCODE", patterns |-> PINCODE_patterns, validation |-> "_validate_pincode", priority |-> 2],
       [pii_type |-> "ADDRESS", patterns |-> ADDRESS_patterns, validation |-> "_validate_address", priority |-> 3],
       [pii_type |-> "NAME", patterns |-> NAME_patterns, validation |-> "_validate_name", priority |-> 3],
       [pii_type |-> "FATHER_NAME", patterns |-> FATHER_NAME_patterns, validation |-> "_validate_name", priority |-> 2],
       [pii_type |-> "MOTHER_NAME", patterns |-> MOTHER_NAME_patterns, validation |-> "_validate_name", priority |-> 2],
       [pii_type |-> "BIOMETRIC_ID", patterns |-> BIOMETRIC_ID_patterns, validation |-> "_validate_biometric", priority |-> 3],
       [pii_type |-> "HEALTH_ID", patterns |-> HEALTH_ID_patterns, validation |-> "_validate_health_id", priority |-> 2] >>

\* self.context_keywords.get(pii_type, [])
context_keywords(pii_type) ==
    CASE pii_type = "AADHAAR" -> <<"aadhaar", "aadhar", "uid", "unique", "identification", "uidai", "enrollment", "demographic">>
      [] pii_type = "PAN" -> <<"pan", "permanent", "account", "number", "income", "tax", "assessee", "taxpayer">>
      [] pii_type = "DRIVING_LICENSE" -> <<"driving", "license", "dl", "motor", "vehicle", "transport", "rto", "issued">>
      [] pii_type = "PASSPORT" -> <<"passport", "travel", "document", "republic", "india", "issued", "valid">>
      [] pii_type = "VOTER_ID" -> <<"voter", "election", "epic", "electoral", "commission", "booth", "constituency">>
      [] pii_type = "CREDIT_CARD" -> <<"credit", "debit", "card", "visa", "master", "amex", "discover", "valid", "expires">>
      [] pii_type = "BANK_ACCOUNT" -> <<"account", "bank", "saving", "current", "deposit", "branch", "holder">>
      [] pii_type = "IFSC" -> <<"ifsc", "micr", "branch", "code", "routing", "swift", "bank">>
      [] pii_type = "MOBILE" -> <<"mobile", "phone", "contact", "cell", "number", "registered", "primary">>
      [] pii_type = "EMAIL" -> <<"email", "mail", "address", "contact", "registered", "primary", "alternate">>
      [] pii_type = "DOB" -> <<"birth", "dob", "born", "date", "age", "year", "month", "day">>
      [] pii_type = "ADDRESS" -> <<"address", "residence", "house", "flat", "plot", "street", "road", "city", "state", "country">>
      [] pii_type = "PINCODE" -> <<"pin", "pincode", "postal", "zip", "area", "code">>
      [] pii_type = "NAME" -> <<"name", "first", "last", "middle", "full", "surname", "given", "family">>
      [] pii_type = "FATHER_NAME" -> <<"father", "dad", "papa", "parent", "guardian", "s/o", "son", "daughter">>
      [] pii_type = "MOTHER_NAME" -> <<"mother", "mom", "mama", "parent", "guardian", "d/o", "w/o", "wife">>
      [] pii_type = "SPOUSE_NAME" -> <<"spouse", "husband", "wife", "partner", "married", "w/o", "s/o">>
      [] OTHER -> << >>

-----------------------------------------------------------------------------
\* Floats

One == 10000

BaseScore == 7000

KeywordStep == 2000

\* a + b in IEEE-754 double arithmetic, for the operands the scorer adds
fadd(a, b) ==
    CASE a = 4000 /\ b = 2000 -> 6001       \* 0.4 + 0.2 = 0.6000000000000001
      [] a = 6001 /\ b = 2000 -> 8000       \* 0.6000000000000001 + 0.2 = 0.8
      [] a = 14000 /\ b = 2000 -> 15999     \* 1.4 + 0.2 = 1.5999999999999999
      [] a = 7000 /\ b = 2000 -> 8999       \* 0.7 + 0.2 = 0.8999999999999999
      [] a = 7000 /\ b = 1000 -> 7999       \* 0.7 + 0.1 = 0.7999999999999999
      [] a = 7000 /\ b = 3001 -> 10000      \* 0.7 + 0.30000000000000004 = 1.0
      [] a = 7000 /\ b = 6001 -> 13000      \* 0.7 + 0.6000000000000001 = 1.3
      [] a = 7000 /\ b = 14000 -> 20999     \* 0.7 + 1.4 = 2.0999999999999996
      [] a = 7000 /\ b = 15999 -> 23000     \* 0.7 + 1.5999999999999999 = 2.3
      [] a = 7000 /\ b = 17999 -> 25000     \* 0.7 + 1.7999999999999998 = 2.5
      [] a = 10000 /\ b = 3001 -> 13000     \* 1.0 + 0.30000000000000004 = 1.3
      [] OTHER -> a + b

\* n * 0.1 in double arithmetic: 3 * 0.1 = 0.30000000000000004
times_tenth(n) == IF n = 3 THEN 3001 ELSE n * 1000

-----------------------------------------------------------------------------
\* The context scorer

\* a loop that adds the step for every occurrence of a keyword
RECURSIVE keyword_loop_per_occurrence(_, _, _, _)
keyword_loop_per_occurrence(keywords, n, context_text, keyword_score) ==
    IF n > Len(keywords) THEN keyword_score
    ELSE keyword_loop_per_occurrence(keywords, n + 1, context_text,
            keyword_score + KeywordStep *
                Cardinality({j \in 0..(Len(context_text) - Len(keywords[n])) :
                                Slice(context_text, j, j + Len(keywords[n])) = keywords[n]}))

\* the loop over the keywords, from the n-th on
RECURSIVE keyword_loop(_, _, _, _)
keyword_loop(keywords, n, context_text, keyword_score) ==
    IF n > Len(keywords) THEN keyword_score
    ELSE keyword_loop(keywords, n + 1, context_text,
                      IF contains(context_text, keywords[n]) THEN fadd(keyword_score, KeywordStep)
                      ELSE keyword_score)

\* a score that is not capped
window_score_uncapped(context_text, pii_type) ==
    fadd(BaseScore, keyword_loop(context_keywords(pii_type), 1, context_text, 0))

\* the score of a window content
window_score(context_text, pii_type) ==
    LET keyword_score == keyword_loop(context_keywords(pii_type), 1, context_text, 0)
    IN  Min(One, fadd(BaseScore, keyword_score))

context_text_of(text, start, end, context_window) ==
    LET context_start == Max(0, start - context_window)
        context_end == Min(Len(text), end + context_window)
    IN  lower(Slice(text, context_start, context_end))

_calculate_context_score(text, start, end, pii_type, context_window) ==
    window_score(context_text_of(text, start, end, context_window), pii_type)

-----------------------------------------------------------------------------
\* Overlap resolution

\* an insertion that puts a match before the matches of equal confidence
RECURSIVE insert_before_equal(_, _)
insert_before_equal(sorted, m) ==
    IF sorted = << >> THEN <<m>>
    ELSE IF Head(sorted).confidence > m.confidence
         THEN <<Head(sorted)>> \o insert_before_equal(Tail(sorted), m)
         ELSE <<m>> \o sorted

\* sorted(matches, key=confidence, reverse=True): stable, so matches of equal
\* confidence keep the order in which they were appended
RECURSIVE insert_by_confidence(_, _)
insert_by_confidence(sorted, m) ==
    IF sorted = << >> THEN <<m>>
    ELSE IF Head(sorted).confidence >= m.confidence
         THEN <<Head(sorted)>> \o insert_by_confidence(Tail(sorted), m)
         ELSE <<m>> \o sorted

RECURSIVE sorted_by_confidence(_, _)
sorted_by_confidence(matches, n) ==
    IF n = 0 THEN << >>
    ELSE insert_by_confidence(sorted_by_confidence(matches, n - 1), matches[n])

is_overlapping(match, filtered_matches) ==
    \E j \in 1..Len(filtered_matches) :
        match.start < filtered_matches[j].end /\ match.end > filtered_matches[j].start

RECURSIVE greedy_filter(_, _, _)
greedy_filter(sorted_matches, n, filtered_matches) ==
    IF n > Len(sorted_matches) THEN filtered_matches
    ELSE greedy_filter(sorted_matches, n + 1,
                       IF is_overlapping(sorted_matches[n], filtered_matches) THEN filtered_matches
                       ELSE Append(filtered_matches, sorted_matches[n]))

\* no resolution: every candidate stays
keep_all_matches(matches) == matches

\* a selection in the order of the list, without the sort
first_come_matches(matches) ==
    IF matches = << >> THEN matches ELSE greedy_filter(matches, 1, << >>)

_remove_overlapping_matches(matches) ==
    IF matches = << >> THEN matches
    ELSE greedy_filter(sorted_by_confidence(matches, Len(matches)), 1, << >>)

-----------------------------------------------------------------------------
\* detect_pii

\* A dict is the sequence of its items [k, v] in insertion order.
dict_has(d, key) == \E j \in 1..Len(d) : d[j].k = key

dict_get(d, key) == d[CHOOSE j \in 1..Len(d) : d[j].k = key].v

dict_keys(d) == [j \in 1..Len(d) |-> d[j].k]

\* false_positives.get(pii_type, [])
false_positives(pii_type) ==
    CASE pii_type = "NAME" -> {"name", "first", "last", "full", "mr", "mrs", "ms", "dr", "sir", "madam"}
      [] pii_type = "MOBILE" -> {"0000000000", "1111111111", "9999999999"}
      [] pii_type = "EMAIL" -> {"email@example.com", "test@test.com"}
      [] pii_type = "ADDRESS" -> {"address", "street", "city", "state"}
      [] OTHER -> {}

_is_false_positive(text, pii_type) == strip(lower(text)) \in false_positives(pii_type)

refine_keeps(match, pii_type) ==
    /\ ~(pii_type \in {"NAME", "ADDRESS"} /\ Len(strip(match.text)) < 3)
    /\ ~_is_false_positive(match.text, pii_type)

\* lines 659-672: the matches of one category that stay
refined_matches(matches, pii_type) == SelectSeq(matches, LAMBDA match : refine_keeps(match, pii_type))

\* a refinement that keeps the key of a category none of whose matches stays
_refine_keeping_empty(detected_pii) ==
    [j \in 1..Len(detected_pii) |->
        [k |-> detected_pii[j].k,
         v |-> refined_matches(detected_pii[j].v, detected_pii[j].k)]] \o << >>

_refine_detections(detected_pii) ==
    LET refined == [j \in 1..Len(detected_pii) |->
                       [k |-> detected_pii[j].k,
                        v |-> refined_matches(detected_pii[j].v, detected_pii[j].k)]] \o << >>
    IN  SelectSeq(refined, LAMBDA item : item.v /= << >>)

\* a confidence that is not capped
uncapped_confidence(context_score, priority) == fadd(context_score, times_tenth(4 - priority))

\* a confidence without the boost of the category's priority
unboosted_confidence(context_score, priority) == Min(One, context_score)

\* lines 554-555: the context score raised by the priority boost, at most 1.0
final_confidence(context_score, priority) ==
    Min(One, fadd(context_score, times_tenth(4 - priority)))

\* a match whose validator raises is taken as valid
match_candidate_raise_as_valid(text, config, n, m, cfg) ==
    LET has_groups == m.gstart /= -1
        match_start == IF has_groups THEN m.gstart ELSE m.start
        match_end == IF has_groups THEN m.gend ELSE m.end
        match_text == Slice(text, match_start, match_end)
        context_score == _calculate_context_score(text, match_start, match_end, config.pii_type, cfg.context_window)
        is_valid == IF validation_raises(config.validation, match_text) THEN TRUE
                    ELSE validation(config.validation, match_text)
        confidence == final_confidence(context_score, config.priority)
    IN  IF is_valid /\ confidence > cfg.confidence_threshold
        THEN << [text |-> match_text, start |-> match_start, end |-> match_end,
                 confidence |-> confidence, pattern |-> n] >>
        ELSE << >>

\* lines 537-564: what one regex match m of the n-th pattern appends to matches
match_candidate(text, config, n, m, cfg) ==
    LET has_groups == m.gstart /= -1
        match_start == IF has_groups THEN m.gstart ELSE m.start
        match_end == IF has_groups THEN m.gend ELSE m.end
        match_text == Slice(text, match_start, match_end)
        context_score == _calculate_context_score(text, match_start, match_end, config.pii_type, cfg.context_window)
        is_valid == IF validation_raises(config.validation, match_text) THEN FALSE
                    ELSE validation(config.validation, match_text)
        confidence == final_confidence(context_score, config.priority)
    IN  IF is_valid /\ confidence > cfg.confidence_threshold
        THEN << [text |-> match_text, start |-> match_start, end |-> match_end,
                 confidence |-> confidence, pattern |-> n] >>
        ELSE << >>

\* lines 534-564: what the matches of the n-th pattern append to matches
pattern_candidates(text, config, n, cfg) ==
    LET pattern_matches == finditer(config.patterns[n], text)
    IN  IF pattern_matches = << >> THEN << >>
        ELSE concat([j \in 1..Len(pattern_matches) |->
                        match_candidate(text, config, n, pattern_matches[j], cfg)],
                    1, Len(pattern_matches))

\* lines 531-564: the matches of one category, before resolution
type_candidates(text, config, cfg) ==
    concat([n \in 1..Len(config.patterns) |-> pattern_candidates(text, config, n, cfg)],
           1, Len(config.patterns))

\* Stage 1 (lines 530-569): the categories in registry order, each with its
\* resolved matches; a category without matches gets no key
stage1_of_registry(registry, text, cfg) ==
    LET found == [t \in 1..Len(registry) |->
                     [k |-> registry[t].pii_type, v |-> type_candidates(text, registry[t], cfg)]] \o << >>
        hit == SelectSeq(found, LAMBDA item : item.v /= << >>)
    IN  [j \in 1..Len(hit) |-> [k |-> hit[j].k, v |-> _remove_overlapping_matches(hit[j].v)]] \o << >>

\* Stage 1 with the registry that __init__ builds (line 34)
stage1(text, cfg) == stage1_of_registry(patterns, text, cfg)

NlpLabels == {"PERSON", "ORG", "GPE", "MONEY", "DATE", "CARDINAL"}

NlpConfidence == 8000

\* entities[entity_type].append(...) in a dict of lists
dict_append(d, key, value) ==
    IF dict_has(d, key)
    THEN [j \in 1..Len(d) |-> IF d[j].k = key THEN [k |-> key, v |-> Append(d[j].v, value)] ELSE d[j]] \o << >>
    ELSE Append(d, [k |-> key, v |-> <<value>>])

\* The language model is spaCy's en_core_web_sm, or none when it is not
\* installed (lines 58-64). A loaded model is one of three stand-ins: "silent"
\* finds no entity, "raising" fails on every text, "tagger" labels the first
\* character and the rest of the text as persons and the second character as a
\* group (a label the engine does not keep). As those of a spaCy Doc, the
\* entities are non-empty spans of the text that do not overlap.
NlpModels == {"none", "silent", "raising", "tagger"}

\* doc = self.nlp(text), line 632: [raised, ents], ents the entities
\* [label_, start_char, end_char] of doc.ents in order
nlp_doc(model, text) ==
    [raised |-> model = "raising",
     ents |-> IF model /= "tagger" \/ text = "" THEN << >>
              ELSE IF Len(text) < 3 THEN << [label_ |-> "PERSON", start_char |-> 0, end_char |-> Len(text)] >>
              ELSE << [label_ |-> "PERSON", start_char |-> 0, end_char |-> 1],
                      [label_ |-> "NORP", start_char |-> 1, end_char |-> 2],
                      [label_ |-> "PERSON", start_char |-> 2, end_char |-> Len(text)] >>]

RECURSIVE nlp_entities_loop(_, _, _, _)
nlp_entities_loop(text, ents, n, entities) ==
    IF n > Len(ents) THEN entities
    ELSE nlp_entities_loop(text, ents, n + 1,
            IF ents[n].label_ \in NlpLabels
            THEN dict_append(entities, "NLP_" \o ents[n].label_,
                             [text |-> Slice(text, ents[n].start_char, ents[n].end_char),
                              start |-> ents[n].start_char, end |-> ents[n].end_char,
                              confidence |-> NlpConfidence])
            ELSE entities)

_detect_nlp_entities(text, model) ==
    LET doc == nlp_doc(model, text)
    IN  IF doc.raised THEN << >> ELSE nlp_entities_loop(text, doc.ents, 1, << >>)

\* lines 574-578: detected_pii[entity_type] = entities, or .extend(entities)
RECURSIVE merge_entities(_, _)
merge_entities(detected_pii, nlp_entities) ==
    IF nlp_entities = << >> THEN detected_pii
    ELSE LET item == Head(nlp_entities)
             merged == IF ~dict_has(detected_pii, item.k) THEN Append(detected_pii, item)
                       ELSE [j \in 1..Len(detected_pii) |->
                               IF detected_pii[j].k = item.k
                               THEN [k |-> item.k, v |-> detected_pii[j].v \o item.v]
                               ELSE detected_pii[j]] \o << >>
         IN  merge_entities(merged, Tail(nlp_entities))

\* a second stage that resolves overlaps across the categories: a span of a
\* pattern-derived category stays only when it overlaps no entity
stage2_across_categories(detected_pii, text, model) ==
    IF model /= "none"
    THEN LET nlp_entities == _detect_nlp_entities(text, model)
             entities == concat([j \in 1..Len(nlp_entities) |-> nlp_entities[j].v], 1, Len(nlp_entities))
             kept == [j \in 1..Len(detected_pii) |->
                         [k |-> detected_pii[j].k,
                          v |-> SelectSeq(detected_pii[j].v,
                                          LAMBDA match : ~is_overlapping(match, entities))]] \o << >>
         IN  merge_entities(kept, nlp_entities)
    ELSE detected_pii

\* Stage 2 (lines 571-578), only with a language model
stage2(detected_pii, text, model) ==
    IF model /= "none" THEN merge_entities(detected_pii, _detect_nlp_entities(text, model))
    ELSE detected_pii

-----------------------------------------------------------------------------
\* The inputs

\* _load_config, lines 44-47
DefaultConfig == [confidence_threshold |-> 6000, context_window |-> 150]

\* the default configuration and two that a config file sets (lines 51-54)
Configs ==
    {DefaultConfig,
     [confidence_threshold |-> 8000, context_window |-> 5],
     [confidence_threshold |-> 9999, context_window |-> 0]}

Scenario == "Contact: 9876543210, Aadhaar: 1234 5678 9123"

\* the same with a number that ends with its check digit
ScenarioValid == "Contact: 9876543210, Aadhaar: 2345 6789 0124"

Tokens ==
    <<"Contact: ", "9876543210", ", Aadhaar: ", "2345 6789 0124", "Name: Ravi Kumar ">>

MaxTokens == 2

\* the texts of up to n tokens
RECURSIVE TokenTexts(_)
TokenTexts(n) ==
    IF n = 0 THEN {""}
    ELSE LET shorter == TokenTexts(n - 1)
         IN  shorter \cup {t \o Tokens[j] : t \in shorter, j \in 1..Len(Tokens)}

Texts == TokenTexts(MaxTokens) \cup {Scenario, ScenarioValid}

\* Stage 1 on the texts and configurations above, computed once
stage1_results == {[text |-> t, cfg |-> c, found |-> stage1(t, c)] : t \in Texts, c \in Configs}

stage1_of(text, cfg) ==
    IF text \in Texts /\ cfg \in Configs
    THEN (CHOOSE e \in stage1_results : e.text = text /\ e.cfg = cfg).found
    ELSE stage1(text, cfg)

-----------------------------------------------------------------------------
\* detect_pii (lines 522-583). text is << >> for None and <<s>> for a str s;
\* cfg is self.config; model is self.nlp
detect_pii(text, cfg, model) ==
    IF text = << >> \/ text[1] = "" THEN << >>
    ELSE _refine_detections(stage2(stage1_of(text[1], cfg), text[1], model))

\* every match of a result: [pii_type, match]
all_spans(pii_data) ==
    UNION {{[pii_type |-> pii_data[j].k, match |-> pii_data[j].v[n]] : n \in 1..Len(pii_data[j].v)} :
              j \in 1..Len(pii_data)}

-----------------------------------------------------------------------------
\* Detection: an engine is built and detect_pii is called on a text.

NoCall == [op |-> "none"]

DetectInit ==
    /\ self_config \in Configs
    /\ self_nlp \in NlpModels
    /\ redaction_log = << >>
    /\ files = << >>
    /\ run \in {[text |-> << >>]} \cup {[text |-> <<t>>] : t \in Texts}
    /\ ret = NoCall

DetectPii ==
    /\ ret = NoCall
    /\ ret' = [op |-> "detect_pii", pii_data |-> detect_pii(run.text, self_config, self_nlp)]
    /\ UNCHANGED <<self_config, self_nlp, redaction_log, files, run>>

DetectNext == DetectPii

DetectSpec == DetectInit /\ [][DetectNext]_vars

-----------------------------------------------------------------------------
\* Detection on an engine whose registry was changed after construction:
\* self.patterns[pii_type]["validation"] is _validate_age, which raises
\* ValueError (int, line 385) on a string that is not a number. No validator
\* of the built registry raises on a string that its own patterns match.

registry_with_validation(pii_type, name) ==
    [t \in 1..Len(patterns) |->
        IF patterns[t].pii_type = pii_type THEN [patterns[t] EXCEPT !.validation = name]
        ELSE patterns[t]] \o << >>

\* detect_pii (lines 522-583) with self.patterns as it is at the call
detect_pii_of_registry(registry, text, cfg, model) ==
    IF text = << >> \/ text[1] = "" THEN << >>
    ELSE _refine_detections(stage2(stage1_of_registry(registry, text[1], cfg), text[1], model))

FaultedTypes == {"AADHAAR", "NAME"}

FaultTexts == {ScenarioValid, Tokens[5], Tokens[5] \o Tokens[2], Tokens[4] \o Tokens[5]}

FaultInit ==
    /\ self_config \in Configs
    /\ self_nlp \in NlpModels
    /\ redaction_log = << >>
    /\ files = << >>
    /\ run \in {[text |-> <<t>>, faulted |-> f] : t \in FaultTexts, f \in FaultedTypes}
    /\ ret = NoCall

DetectPiiFaulted ==
    /\ ret = NoCall
    /\ ret' = [op |-> "detect_pii",
               pii_data |-> detect_pii_of_registry(registry_with_validation(run.faulted, "_validate_age"),
                                                   run.text, self_config, self_nlp)]
    /\ UNCHANGED <<self_config, self_nlp, redaction_log, files, run>>

FaultNext == DetectPiiFaulted

FaultSpec == FaultInit /\ [][FaultNext]_vars

-----------------------------------------------------------------------------
\* Documents and the file system
\*
\* A path is [stem, suffix]. A document is [text, saved_by]: text is what the
\* reader of its format gives for it, <<s>> for a str s and << >> when the
\* reader fails on it; saved_by is who wrote the bytes ("user" for a document
\* the engine did not write). shutil.copy2 keeps the whole document.

MaskChar == "~"

\* "x" * n
times(x, n) == IF n <= 0 THEN "" ELSE concat([j \in 1..n |-> x], 1, n)

\* Path(file_path).suffix.lower() and the formats of lines 413-424 and 701-712
format_of(path) ==
    LET file_ext == lower(path.suffix)
    IN  CASE file_ext = ".pdf" -> "pdf"
          [] file_ext \in {".docx", ".doc"} -> "word"
          [] file_ext \in {".xlsx", ".xls"} -> "excel"
          [] file_ext = ".txt" -> "text"
          [] file_ext \in {".png", ".jpg", ".jpeg", ".tiff", ".bmp"} -> "image"
          [] OTHER -> "unsupported"

\* extract_text_from_file (lines 408-427): None for a format it does not read,
\* for a missing file and for a document its reader fails on
extract_text_from_file(fs, path) ==
    IF format_of(path) = "unsupported" \/ path \notin DOMAIN fs THEN << >> ELSE fs[path].text

\* _generate_output_path (lines 717-722), timestamp being now() as text
_generate_output_path(input_path, timestamp) ==
    [stem |-> input_path.stem \o "_redacted_" \o timestamp,
     suffix |-> IF input_path.suffix /= "" THEN input_path.suffix ELSE ".txt"]

\* the matches of all categories, in the order of the dict
RECURSIVE matches_of(_, _)
matches_of(pii_data, j) ==
    IF j > Len(pii_data) THEN << >> ELSE pii_data[j].v \o matches_of(pii_data, j + 1)

\* all_matches.sort(key=start, reverse=True), line 852: stable, so matches of
\* equal start keep their order
RECURSIVE insert_by_start(_, _)
insert_by_start(sorted, m) ==
    IF sorted = << >> THEN <<m>>
    ELSE IF Head(sorted).start >= m.start
         THEN <<Head(sorted)>> \o insert_by_start(Tail(sorted), m)
         ELSE <<m>> \o sorted

RECURSIVE sorted_by_start(_, _)
sorted_by_start(matches, n) ==
    IF n = 0 THEN << >>
    ELSE insert_by_start(sorted_by_start(matches, n - 1), matches[n])

\* a loop that leaves a match alone when its first character is masked already
RECURSIVE mask_loop_skipping_masked(_, _, _)
mask_loop_skipping_masked(redacted_text, all_matches, n) ==
    IF n > Len(all_matches) THEN redacted_text
    ELSE LET start == all_matches[n].start
             end == all_matches[n].end
         IN  mask_loop_skipping_masked(
                 IF Slice(redacted_text, start, start + 1) = MaskChar THEN redacted_text
                 ELSE Slice(redacted_text, 0, start) \o times(MaskChar, end - start)
                          \o Slice(redacted_text, end, Len(redacted_text)),
                 all_matches, n + 1)

\* lines 854-857: the replacements from the n-th match on
RECURSIVE mask_loop(_, _, _)
mask_loop(redacted_text, all_matches, n) ==
    IF n > Len(all_matches) THEN redacted_text
    ELSE LET start == all_matches[n].start
             end == all_matches[n].end
         IN  mask_loop(Slice(redacted_text, 0, start) \o times(MaskChar, end - start)
                           \o Slice(redacted_text, end, Len(redacted_text)),
                       all_matches, n + 1)

\* a text that is written as it was read
unmasked_text_of(text, pii_data) == text

\* lines 844-857 of _redact_text: the text that is written
redacted_text_of(text, pii_data) ==
    LET found == matches_of(pii_data, 1)
    IN  mask_loop(text, sorted_by_start(found, Len(found)), 1)

\* s.replace(old, new), for a non-empty old
RECURSIVE str_replace(_, _, _)
str_replace(s, old, new) ==
    LET hits == {j \in 0..(Len(s) - Len(old)) : Slice(s, j, j + Len(old)) = old}
    IN  IF hits = {} THEN s
        ELSE LET j == CHOOSE h \in hits : \A g \in hits : h <= g
             IN  Slice(s, 0, j) \o new \o str_replace(Slice(s, j + Len(old), Len(s)), old, new)

\* the keys of the replacements dict (lines 778-781, 815-818), in its order
RECURSIVE replacement_keys(_, _)
replacement_keys(found, n) ==
    IF n = 0 THEN << >>
    ELSE LET keys == replacement_keys(found, n - 1)
         IN  IF \E j \in 1..Len(keys) : keys[j] = found[n].text THEN keys
             ELSE Append(keys, found[n].text)

\* lines 784-787 on a document of one paragraph: each key that is in the
\* paragraph is replaced by as many mask characters
RECURSIVE word_loop(_, _, _)
word_loop(paragraph, keys, n) ==
    IF n > Len(keys) THEN paragraph
    ELSE word_loop(IF contains(paragraph, keys[n])
                   THEN str_replace(paragraph, keys[n], times(MaskChar, Len(keys[n])))
                   ELSE paragraph,
                   keys, n + 1)

\* lines 743-757 on a page: what search_for finds of each match text is
\* removed from the page
RECURSIVE pdf_loop(_, _, _)
pdf_loop(page_text, found, n) ==
    IF n > Len(found) THEN page_text
    ELSE pdf_loop(str_replace(page_text, found[n].text, ""), found, n + 1)

\* lines 883-900: the words of the image that stay readable, a word being
\* painted over when a match text is in it or it is in a match text
image_words(text, found) ==
    LET words == SelectSeq(split(text, " "), LAMBDA word : strip(word) /= "")
        kept == SelectSeq(words, LAMBDA word :
                    ~\E j \in 1..Len(found) :
                        contains(word, found[j].text) \/ contains(found[j].text, word))
    IN  IF kept = << >> THEN ""
        ELSE concat([j \in 1..Len(kept) |-> IF j = 1 THEN kept[j] ELSE " " \o kept[j]], 1, Len(kept))

\* the document a format's applicator saves for a text with detections
redacted_document(format, text, pii_data) ==
    LET found == matches_of(pii_data, 1)
        keys == replacement_keys(found, Len(found))
    IN  CASE format = "pdf" -> [text |-> <<pdf_loop(text, found, 1)>>, saved_by |-> "fitz"]
          [] format = "word" -> [text |-> <<word_loop(text, keys, 1)>>, saved_by |-> "docx"]
          [] format = "text" -> [text |-> <<redacted_text_of(text, pii_data)>>, saved_by |-> "open"]
          [] format = "image" -> [text |-> <<image_words(text, found)>>, saved_by |-> "PIL"]

RECURSIVE total_count(_, _)
total_count(pii_data, j) ==
    IF j > Len(pii_data) THEN 0 ELSE Len(pii_data[j].v) + total_count(pii_data, j + 1)

\* a log entry that keeps the matched text in its details
log_entry_with_text(input_path, output_path, pii_data, timestamp) ==
    [timestamp |-> timestamp,
     input_file |-> input_path,
     output_file |-> output_path,
     pii_detected |-> [j \in 1..Len(pii_data) |-> [k |-> pii_data[j].k, v |-> Len(pii_data[j].v)]] \o << >>,
     total_pii_count |-> total_count(pii_data, 1),
     pii_details |-> [j \in 1..Len(pii_data) |->
                        [k |-> pii_data[j].k,
                         v |-> [n \in 1..Len(pii_data[j].v) |->
                                  [text |-> pii_data[j].v[n].text,
                                   confidence |-> pii_data[j].v[n].confidence]] \o << >>]] \o << >>]

\* _log_redaction, lines 909-916
log_entry(input_path, output_path, pii_data, timestamp) ==
    [timestamp |-> timestamp,
     input_file |-> input_path,
     output_file |-> output_path,
     pii_detected |-> [j \in 1..Len(pii_data) |-> [k |-> pii_data[j].k, v |-> Len(pii_data[j].v)]] \o << >>,
     total_pii_count |-> total_count(pii_data, 1),
     pii_details |-> [j \in 1..Len(pii_data) |->
                        [k |-> pii_data[j].k,
                         v |-> [n \in 1..Len(pii_data[j].v) |->
                                  [text |-> "***REDACTED***",
                                   confidence |-> pii_data[j].v[n].confidence]] \o << >>]] \o << >>]

\* what a call of redact_file raises or returns (output is << >> or <<path>>),
\* with the detections it worked from, the document it wrote and the entry it
\* logged (each << >> or <<x>>)
Raised(error) ==
    [op |-> "redact_file", raised |-> error, output |-> << >>, pii_data |-> << >>,
     written |-> << >>, logged |-> << >>]

\* an applicator that logs the document before it masks it
logged_before_masking(fs, input_path, output_path, timestamp, text, pii_data) ==
    IF pii_data /= << >> /\ format_of(input_path) = "excel"
    THEN [op |-> "redact_file", raised |-> "AttributeError", output |-> << >>, pii_data |-> << >>,
          written |-> << >>,
          logged |-> <<log_entry(input_path, output_path, pii_data, timestamp)>>]
    ELSE
    [op |-> "redact_file", raised |-> "", output |-> <<output_path>>, pii_data |-> pii_data,
     written |-> IF pii_data = << >> THEN <<fs[input_path]>>
                 ELSE <<redacted_document(format_of(input_path), text[1], pii_data)>>,
     logged |-> IF pii_data = << >> THEN << >>
                ELSE <<log_entry(input_path, output_path, pii_data, timestamp)>>]

\* an engine that saves every output itself, with or without detections
always_rewritten(fs, input_path, output_path, timestamp, text, pii_data) ==
    [op |-> "redact_file", raised |-> "", output |-> <<output_path>>, pii_data |-> pii_data,
     written |-> <<[text |-> text, saved_by |-> "engine"]>>,
     logged |-> << >>]

\* lines 704-715 with the _redact_* they call (lines 724-905)
\* _redact_excel with detections stops at line 822: a row of iter_rows() is a
\* tuple of cells and has no attribute cells, and the sheets of a document
\* with text have rows; nothing is saved or logged before that
redact_detected(fs, input_path, output_path, timestamp, text, pii_data) ==
    IF pii_data /= << >> /\ format_of(input_path) = "excel" THEN Raised("AttributeError")
    ELSE
    [op |-> "redact_file", raised |-> "", output |-> <<output_path>>, pii_data |-> pii_data,
     written |-> IF pii_data = << >> THEN <<fs[input_path]>>
                 ELSE <<redacted_document(format_of(input_path), text[1], pii_data)>>,
     logged |-> IF pii_data = << >> THEN << >>
                ELSE <<log_entry(input_path, output_path, pii_data, timestamp)>>]

\* lines 701-703
redact_extracted(fs, input_path, output_path, timestamp, cfg, model, text) ==
    redact_detected(fs, input_path, output_path, timestamp, text, detect_pii(text, cfg, model))

\* redact_file (lines 690-715)
redact_file(fs, input_path, output_path, timestamp, cfg, model) ==
    IF input_path \notin DOMAIN fs THEN Raised("FileNotFoundError")
    ELSE IF format_of(input_path) = "unsupported" THEN Raised("ValueError")
    ELSE redact_extracted(fs, input_path, output_path, timestamp, cfg, model,
                          extract_text_from_file(fs, input_path))

-----------------------------------------------------------------------------
\* The engine: it is built as main builds it, without a config file (line
\* 979), redact_file is called on the documents of a file system, and
\* get_redaction_summary, detect_pii and validate_redaction_quality are
\* called after any number of these calls. These three and a redact_file that
\* raises leave the engine and the files as they were, so what can follow
\* them is what can follow the state before them: of the calls after one of
\* them only get_redaction_summary is followed.

\* the output cannot be written (open, doc.save, workbook.save, img.save or
\* shutil.copy2 raises): the call raises before anything is saved or logged,
\* the save coming before _log_redaction in every _redact_* (lines 759-762,
\* 797-798, 830-831, 859-862, 903-904)
output_saved(result, writable) ==
    IF result.raised = "" /\ ~writable THEN Raised("PermissionError") ELSE result

\* a total that keeps the count of the last entry only
summary_set(found, pii_type, count) ==
    IF dict_has(found, pii_type)
    THEN [j \in 1..Len(found) |->
            IF found[j].k = pii_type THEN [k |-> pii_type, v |-> count] ELSE found[j]] \o << >>
    ELSE Append(found, [k |-> pii_type, v |-> count])

\* lines 935-937: summary["pii_types_found"][pii_type] += count, from 0 for a
\* type that is not in it yet
summary_add(found, pii_type, count) ==
    IF dict_has(found, pii_type)
    THEN [j \in 1..Len(found) |->
            IF found[j].k = pii_type THEN [k |-> pii_type, v |-> found[j].v + count]
            ELSE found[j]] \o << >>
    ELSE Append(found, [k |-> pii_type, v |-> 0 + count])

\* line 934: the types of one log entry, from the n-th on
RECURSIVE summary_types_loop(_, _, _)
summary_types_loop(found, pii_detected, n) ==
    IF n > Len(pii_detected) THEN found
    ELSE summary_types_loop(summary_add(found, pii_detected[n].k, pii_detected[n].v),
                            pii_detected, n + 1)

\* line 933: the log entries, from the n-th on
RECURSIVE summary_log_loop(_, _, _)
summary_log_loop(found, log, n) ==
    IF n > Len(log) THEN found
    ELSE summary_log_loop(summary_types_loop(found, log[n].pii_detected, 1), log, n + 1)

\* line 928: sum(log["total_pii_count"] for log in self.redaction_log)
RECURSIVE sum_total_pii_count(_, _)
sum_total_pii_count(log, n) ==
    IF n > Len(log) THEN 0 ELSE log[n].total_pii_count + sum_total_pii_count(log, n + 1)

\* get_redaction_summary (lines 921-940)
get_redaction_summary(log) ==
    IF log = << >> THEN [message |-> "No redactions performed yet"]
    ELSE [total_files_processed |-> Len(log),
          total_pii_redacted |-> sum_total_pii_count(log, 1),
          pii_types_found |-> summary_log_loop(<< >>, log, 1),
          redaction_log |-> log]

\* validate_redaction_quality (lines 942-955). extract_text_from_file returns
\* None where it fails and detect_pii returns {} for None, so nothing is
\* raised inside the try and line 955 is not reached
validate_redaction_quality(fs, original_path, redacted_path, cfg, model) ==
    LET redacted_text == extract_text_from_file(fs, redacted_path)
        remaining_pii == detect_pii(redacted_text, cfg, model)
    IN  IF remaining_pii /= << >> THEN FALSE ELSE TRUE

\* the log is set to a list of the new entry instead of getting it appended
list_assigned(log, log_entry_) == <<log_entry_>>

\* self.redaction_log.append(log_entry), line 918, one bytecode of the
\* interpreter: no other thread runs within it
list_append(log, log_entry_) == Append(log, log_entry_)

MaxLog == 2

MaxFiles == 3

Timestamps == {"20240101_120000"}

Suffixes == {".PDF", ".docx", ".xlsx", ".txt", ".png", ".csv"}

\* what the reader gives for the document the session starts with
DocTexts == {<< >>, <<Tokens[2]>>, <<Tokens[1] \o Tokens[2]>>, <<Tokens[1]>>}

InputPath(suffix) == [stem |-> "input", suffix |-> suffix]

MissingPath == [stem |-> "missing", suffix |-> ".txt"]

ExplicitPath(input_path) == [stem |-> "out", suffix |-> input_path.suffix]

Init ==
    /\ self_config = DefaultConfig
    /\ self_nlp \in {"none", "tagger"}
    /\ redaction_log = << >>
    /\ \E suffix \in Suffixes, text \in DocTexts :
           files = (InputPath(suffix) :> [text |-> text, saved_by |-> "user"])
    /\ ret = NoCall
    /\ run = NoCall

RedactFile ==
    /\ ret.op = "none" \/ (ret.op = "redact_file" /\ ret.raised = "")
    /\ Len(redaction_log) < MaxLog
    /\ Cardinality(DOMAIN files) < MaxFiles
    /\ \E input_path \in DOMAIN files \cup {MissingPath}, timestamp \in Timestamps,
          explicit \in BOOLEAN, writable \in BOOLEAN :
           /\ run' = [op |-> "redact_file", input_path |-> input_path,
                      output_path |-> IF explicit THEN <<ExplicitPath(input_path)>> ELSE << >>,
                      timestamp |-> timestamp, files |-> files, log |-> redaction_log,
                      writable |-> writable]
           /\ ret' = output_saved(redact_file(files, input_path,
                                              IF explicit THEN ExplicitPath(input_path)
                                              ELSE _generate_output_path(input_path, timestamp),
                                              timestamp, self_config, self_nlp),
                                  writable)
    /\ files' = IF ret'.written = << >> THEN files
                ELSE (ret'.output[1] :> ret'.written[1]) @@ files
    /\ redaction_log' = IF ret'.logged = << >> THEN redaction_log
                         ELSE list_append(redaction_log, ret'.logged[1])
    /\ UNCHANGED <<self_config, self_nlp>>

GetRedactionSummary ==
    /\ run' = [op |-> "get_redaction_summary", log |-> redaction_log]
    /\ ret' = [op |-> "get_redaction_summary", value |-> get_redaction_summary(redaction_log)]
    /\ UNCHANGED <<self_config, self_nlp, redaction_log, files>>

\* detect_pii called on a text
DetectPiiText ==
    /\ ret.op = "none" \/ (ret.op = "redact_file" /\ ret.raised = "")
    /\ \E text \in DocTexts :
           /\ run' = [op |-> "detect_pii", text |-> text]
           /\ ret' = [op |-> "detect_pii", pii_data |-> detect_pii(text, self_config, self_nlp)]
    /\ UNCHANGED <<self_config, self_nlp, redaction_log, files>>

\* validate_redaction_quality called on a document of the file system or on
\* a missing one; original_path, which the method does not read, is the
\* document the session started with
ValidateRedactionQuality ==
    /\ ret.op = "none" \/ (ret.op = "redact_file" /\ ret.raised = "")
    /\ \E original_path \in {path \in DOMAIN files : path.stem = "input"},
          redacted_path \in DOMAIN files \cup {MissingPath} :
           /\ run' = [op |-> "validate_redaction_quality", original_path |-> original_path,
                      redacted_path |-> redacted_path]
           /\ ret' = [op |-> "validate_redaction_quality",
                      value |-> validate_redaction_quality(files, original_path, redacted_path,
                                                           self_config, self_nlp)]
    /\ UNCHANGED <<self_config, self_nlp, redaction_log, files>>

Next == RedactFile \/ GetRedactionSummary \/ DetectPiiText \/ ValidateRedactionQuality

Spec == Init /\ [][Next]_vars

-----------------------------------------------------------------------------
\* Worker threads call redact_file on one engine, each on a document of its
\* own. A call goes through the statements of redact_file and of the
\* _redact_* of its format; the statements of different calls interleave.
\* run[w] is the frame of worker w's call and ret[w] what the call gave.

MaxWorkers == 2

Workers == 1..MaxWorkers

\* the documents the workers are given: [suffix, text]
WorkerDocs ==
    {[suffix |-> ".txt", text |-> <<Tokens[1]>>],
     [suffix |-> ".txt", text |-> <<Tokens[3]>>],
     [suffix |-> ".docx", text |-> <<Tokens[1] \o Tokens[2]>>],
     [suffix |-> ".xlsx", text |-> <<Tokens[2]>>],
     [suffix |-> ".csv", text |-> <<Tokens[2]>>]}

WorkerStems == <<"a", "b", "c">>

WorkerInput(w, suffix) == [stem |-> WorkerStems[w], suffix |-> suffix]

WorkersInit ==
    /\ self_config = DefaultConfig
    /\ self_nlp \in {"none", "tagger"}
    /\ redaction_log = << >>
    /\ \E docs \in [Workers -> WorkerDocs], timestamp \in Timestamps :
           /\ files = [path \in {WorkerInput(w, docs[w].suffix) : w \in Workers} |->
                          [text |-> docs[CHOOSE w \in Workers : WorkerStems[w] = path.stem].text,
                           saved_by |-> "user"]]
           /\ run = [w \in Workers |->
                        [pc |-> "redact_file",
                         input_path |-> WorkerInput(w, docs[w].suffix),
                         output_path |-> _generate_output_path(WorkerInput(w, docs[w].suffix), timestamp),
                         timestamp |-> timestamp,
                         text |-> << >>, pii_data |-> << >>, result |-> NoCall]]
    /\ ret = [w \in Workers |-> NoCall]

\* lines 692-712 and the first statement of the _redact_*: the input exists,
\* its suffix is one of a format, and its text is extracted
WorkerExtract(w) ==
    /\ run[w].pc = "redact_file"
    /\ IF format_of(run[w].input_path) = "unsupported"
       THEN /\ run' = [run EXCEPT ![w].pc = "done"]
            /\ ret' = [ret EXCEPT ![w] = Raised("ValueError")]
       ELSE /\ run' = [run EXCEPT ![w].pc = "detect_pii",
                                  ![w].text = extract_text_from_file(files, run[w].input_path)]
            /\ ret' = ret
    /\ UNCHANGED <<self_config, self_nlp, redaction_log, files>>

\* pii_data = self.detect_pii(text)
WorkerDetect(w) ==
    /\ run[w].pc = "detect_pii"
    /\ run' = [run EXCEPT ![w].pc = "mask",
                          ![w].pii_data = detect_pii(run[w].text, self_config, self_nlp)]
    /\ UNCHANGED <<self_config, self_nlp, redaction_log, files, ret>>

\* the document is masked in memory, or the masking raises
WorkerMask(w) ==
    /\ run[w].pc = "mask"
    /\ run' = [run EXCEPT ![w].pc = "save",
                          ![w].result = redact_detected(files, run[w].input_path, run[w].output_path,
                                                        run[w].timestamp, run[w].text, run[w].pii_data)]
    /\ UNCHANGED <<self_config, self_nlp, redaction_log, files, ret>>

\* the output is saved (or copied, without detections, and the call returns)
WorkerSave(w) ==
    /\ run[w].pc = "save"
    /\ IF run[w].result.raised /= ""
       THEN /\ files' = files
            /\ run' = [run EXCEPT ![w].pc = "done"]
            /\ ret' = [ret EXCEPT ![w] = run[w].result]
       ELSE /\ files' = (run[w].output_path :> run[w].result.written[1]) @@ files
            /\ IF run[w].result.logged = << >>
               THEN /\ run' = [run EXCEPT ![w].pc = "done"]
                    /\ ret' = [ret EXCEPT ![w] = run[w].result]
               ELSE /\ run' = [run EXCEPT ![w].pc = "_log_redaction"]
                    /\ ret' = ret
    /\ UNCHANGED <<self_config, self_nlp, redaction_log>>

\* self._log_redaction(input_path, output_path, pii_data); return output_path
WorkerLog(w) ==
    /\ run[w].pc = "_log_redaction"
    /\ redaction_log' = list_append(redaction_log, run[w].result.logged[1])
    /\ run' = [run EXCEPT ![w].pc = "done"]
    /\ ret' = [ret EXCEPT ![w] = run[w].result]
    /\ UNCHANGED <<self_config, self_nlp, files>>

WorkersNext ==
    \E w \in Workers :
        \/ WorkerExtract(w)
        \/ WorkerDetect(w)
        \/ WorkerMask(w)
        \/ WorkerSave(w)
        \/ WorkerLog(w)

WorkersSpec == WorkersInit /\ [][WorkersNext]_vars

-----------------------------------------------------------------------------
\* _validate_aadhaar on the numbers a check-digit generator produces and on
\* those numbers with one digit changed.

\* The Verhoeff scheme from its definition: the dihedral group of order 10
\* (0..4 the rotations, 5..9 the reflections), the permutation sigma applied
\* once more per position, and the inverses of the group.
D5(a, b) ==
    IF a < 5 /\ b < 5 THEN (a + b) % 5
    ELSE IF a < 5 THEN 5 + ((a + b - 5) % 5)
    ELSE IF b < 5 THEN 5 + ((a - 5 - b) % 5)
    ELSE (a - b) % 5

Sigma == <<1, 5, 7, 6, 2, 8, 3, 0, 9, 4>>

RECURSIVE SigmaPow(_, _)
SigmaPow(i, x) == IF i = 0 THEN x ELSE SigmaPow(i - 1, Sigma[x + 1])

D5Inverse(a) == IF a >= 5 THEN a ELSE (5 - a) % 5

\* the product of the digits of prefix, the j-th from the end permuted j times
RECURSIVE CheckProduct(_, _, _)
CheckProduct(prefix, j, c) ==
    IF j > Len(prefix) THEN c
    ELSE CheckProduct(prefix, j + 1,
                      D5(c, SigmaPow(j % 8, int_digit(CharAt(prefix, Len(prefix) - j)))))

\* the check digit a generator appends to prefix
CheckDigit(prefix) == CharAt(DigitChars, D5Inverse(CheckProduct(prefix, 1, 0)))

\* number is a digit string that ends with the check digit of the rest
Generated(number) ==
    /\ Len(number) = AadhaarLen
    /\ isdigit(number)
    /\ CharAt(number, Len(number) - 1) = CheckDigit(Slice(number, 0, Len(number) - 1))

\* number with the character at pos replaced by c
Changed(number, pos, c) == Slice(number, 0, pos) \o c \o Slice(number, pos + 1, Len(number))

\* number and other are digit strings that differ at exactly one position
OneDigitApart(number, other) ==
    /\ Len(number) = Len(other)
    /\ isdigit(number)
    /\ Cardinality({j \in 1..Len(number) : SubSeq(number, j, j) /= SubSeq(other, j, j)}) = 1

AadhaarPrefixes ==
    {"23456" \o a \o "8901" \o b : a, b \in AsciiDigits} \cup {"00000000000", "11111111111", "33333333333"}

AadhaarInit ==
    /\ self_config = DefaultConfig
    /\ self_nlp = "none"
    /\ redaction_log = << >>
    /\ files = << >>
    /\ ret = NoCall
    /\ \E prefix \in AadhaarPrefixes, pos \in 0..(AadhaarLen - 1), c \in AsciiDigits :
           run = [number |-> Changed(prefix \o CheckDigit(prefix), pos, c),
                  generated |-> prefix \o CheckDigit(prefix)]

ValidateAadhaar ==
    /\ ret = NoCall
    /\ ret' = [op |-> "_validate_aadhaar", value |-> _validate_aadhaar(run.number)]
    /\ UNCHANGED <<self_config, self_nlp, redaction_log, files, run>>

AadhaarNext == ValidateAadhaar

AadhaarSpec == AadhaarInit /\ [][AadhaarNext]_vars

-----------------------------------------------------------------------------
\* _validate_credit_card on card numbers of several lengths and writings.

MinDigits == 11

MaxDigits == 21

\* s in groups of four joined by sep
RECURSIVE Grouped(_, _)
Grouped(s, sep) ==
    IF Len(s) <= 4 THEN s
    ELSE SubSeq(s, 1, 4) \o sep \o Grouped(SubSeq(s, 5, Len(s)), sep)

\* a number of n digits that ends with the digits a and b, in a writing
CardNumber(n, a, b, writing) ==
    LET digits == "4" \o times("1", n - 3) \o a \o b
    IN  CASE writing = "plain" -> digits
          [] writing = "dashed" -> Grouped(digits, "-")
          [] writing = "spaced" -> " " \o Grouped(digits, " ") \o "\n"
          [] writing = "lettered" -> Changed(digits, 1, "x")

CardWritings == {"plain", "dashed", "spaced", "lettered"}

CardInit ==
    /\ self_config = DefaultConfig
    /\ self_nlp = "none"
    /\ redaction_log = << >>
    /\ files = << >>
    /\ ret = NoCall
    /\ \/ \E n \in MinDigits..MaxDigits, a \in AsciiDigits, b \in AsciiDigits, writing \in CardWritings :
              run = [number |-> CardNumber(n, a, b, writing)]
       \/ run \in {[number |-> ""], [number |-> " -"]}

ValidateCreditCard ==
    /\ ret = NoCall
    /\ ret' = [op |-> "_validate_credit_card", value |-> _validate_credit_card(run.number)]
    /\ UNCHANGED <<self_config, self_nlp, redaction_log, files, run>>

CardNext == ValidateCreditCard

CardSpec == CardInit /\ [][CardNext]_vars

-----------------------------------------------------------------------------
\* _calculate_context_score on a text, and again on the text with one more
\* occurrence of a keyword of the category. The engine has the default
\* window, which holds the whole of each of these texts.

ScoreTexts == {"x", "uidai", "UID 12", "Phone", "contact phone"}

ScoreTypes == {"AADHAAR", "MOBILE"}

\* text with keyword put in at pos
Inserted(text, pos, keyword) == Slice(text, 0, pos) \o keyword \o Slice(text, pos, Len(text))

ScoreInit ==
    /\ self_config = DefaultConfig
    /\ self_nlp = "none"
    /\ redaction_log = << >>
    /\ files = << >>
    /\ ret = NoCall
    /\ \E text \in ScoreTexts, pii_type \in ScoreTypes :
           \E end \in {1, Len(text)} :
               run = [text |-> text, start |-> 0, end |-> end, pii_type |-> pii_type, earlier |-> << >>]

CalculateContextScore ==
    /\ ret = NoCall
    /\ ret' = [op |-> "_calculate_context_score",
               score |-> _calculate_context_score(run.text, run.start, run.end, run.pii_type,
                                                  self_config.context_window)]
    /\ UNCHANGED <<self_config, self_nlp, redaction_log, files, run>>

\* the text gets one more occurrence of a keyword; the match keeps its place
\* in the text that was there
InsertKeyword ==
    /\ ret.op = "_calculate_context_score"
    /\ run.earlier = << >>
    /\ \E n \in 1..Len(context_keywords(run.pii_type)), pos \in 0..Len(run.text) :
           LET keyword == context_keywords(run.pii_type)[n]
           IN  run' = [text |-> Inserted(run.text, pos, keyword),
                       start |-> IF pos <= run.start THEN run.start + Len(keyword) ELSE run.start,
                       end |-> IF pos < run.end THEN run.end + Len(keyword) ELSE run.end,
                       pii_type |-> run.pii_type,
                       earlier |-> <<[text |-> run.text, score |-> ret.score,
                                      keyword |-> keyword, pos |-> pos]>>]
    /\ ret' = NoCall
    /\ UNCHANGED <<self_config, self_nlp, redaction_log, files>>

ScoreNext == CalculateContextScore \/ InsertKeyword

ScoreSpec == ScoreInit /\ [][ScoreNext]_vars

-----------------------------------------------------------------------------
\* _calculate_context_score on matches at every place of a text, on engines
\* with a context window of 0, of 3 and of the default 150 characters.

WindowTexts == {"phone 98 phone", "Uid 12 uidai", "Phone 9", "98"}

Windows == {0, 3, 150}

WindowInit ==
    /\ self_config \in {[confidence_threshold |-> 6000, context_window |-> w] : w \in Windows}
    /\ self_nlp = "none"
    /\ redaction_log = << >>
    /\ files = << >>
    /\ ret = NoCall
    /\ \E text \in WindowTexts, pii_type \in ScoreTypes :
           \E start \in 0..(Len(text) - 1) :
               \E end \in (start + 1)..Len(text) :
                   run = [text |-> text, start |-> start, end |-> end, pii_type |-> pii_type,
                          earlier |-> << >>]

WindowNext == CalculateContextScore

WindowSpec == WindowInit /\ [][WindowNext]_vars

-----------------------------------------------------------------------------
\* _remove_overlapping_matches on the candidate lists of one category.

MaxCandidates == 3

MaxPos == 2

Confidences == {7500, 9000}

\* the lists of up to n candidates; pattern tells the candidates of a list apart
RECURSIVE CandidateLists(_)
CandidateLists(n) ==
    IF n = 0 THEN {<< >>}
    ELSE LET shorter == CandidateLists(n - 1)
         IN  shorter \cup
             {Append(l, [text |-> "", start |-> a, end |-> b, confidence |-> c, pattern |-> n]) :
                 l \in {x \in shorter : Len(x) = n - 1},
                 a \in 0..MaxPos, b \in 1..MaxPos, c \in Confidences}

ResolveInit ==
    /\ self_config = DefaultConfig
    /\ self_nlp = "none"
    /\ redaction_log = << >>
    /\ files = << >>
    /\ ret = NoCall
    /\ \E matches \in CandidateLists(MaxCandidates) :
           /\ \A j \in 1..Len(matches) : matches[j].start < matches[j].end
           /\ run = [matches |-> matches]

RemoveOverlappingMatches ==
    /\ ret = NoCall
    /\ ret' = [op |-> "_remove_overlapping_matches", value |-> _remove_overlapping_matches(run.matches)]
    /\ UNCHANGED <<self_config, self_nlp, redaction_log, files, run>>

ResolveNext == RemoveOverlappingMatches

ResolveSpec == ResolveInit /\ [][ResolveNext]_vars

-----------------------------------------------------------------------------
\* Properties of _validate_aadhaar

\* C4: _validate_aadhaar returns true for every 12-digit string whose last
\* digit is the Verhoeff check digit of the first 11, and false for every
\* string that differs from such a string in exactly one digit.
C4_VerhoeffAcceptsGeneratedRejectsOneDigitChange ==
    ret.op = "_validate_aadhaar" =>
        /\ Generated(run.number) => ret.value = TRUE
        /\ (Generated(run.generated) /\ OneDigitApart(run.number, run.generated)) => ret.value = FALSE

\* a generated number was accepted
C4_WitnessGeneratedAccepted ==
    /\ ret.op = "_validate_aadhaar"
    /\ run.number = "234567890124"
    /\ Generated(run.number)
    /\ ret.value = TRUE

-----------------------------------------------------------------------------
\* Properties of _validate_credit_card

LuhnDoubled == <<0, 2, 4, 6, 8, 1, 3, 5, 7, 9>>

\* the Luhn sum of a digit string, from its j-th character on
RECURSIVE LuhnSum(_, _)
LuhnSum(digits, j) ==
    IF j > Len(digits) THEN 0
    ELSE LET d == int_digit(SubSeq(digits, j, j))
         IN  (IF (Len(digits) - j) % 2 = 1 THEN LuhnDoubled[d + 1] ELSE d) + LuhnSum(digits, j + 1)

RECURSIVE WithoutSeparators(_)
WithoutSeparators(s) ==
    IF s = "" THEN ""
    ELSE (IF SubSeq(s, 1, 1) \in Spaces \cup {"-"} THEN "" ELSE SubSeq(s, 1, 1))
             \o WithoutSeparators(SubSeq(s, 2, Len(s)))

LuhnValid(number) ==
    LET digits == WithoutSeparators(number)
    IN  /\ Len(digits) >= 13
        /\ Len(digits) <= 19
        /\ \A j \in 1..Len(digits) : SubSeq(digits, j, j) \in AsciiDigits
        /\ LuhnSum(digits, 1) % 10 = 0

\* C5: _validate_credit_card returns true exactly for the inputs that, without
\* '-' and whitespace, are 13 to 19 digits whose Luhn sum is a multiple of 10;
\* it accepts "4111111111111111" and rejects "4111111111111112".
C5_LuhnAcceptsExactlyValidNumbers ==
    ret.op = "_validate_credit_card" =>
        /\ ret.value = LuhnValid(run.number)
        /\ run.number = "4111111111111111" => ret.value = TRUE
        /\ run.number = "4111111111111112" => ret.value = FALSE

\* the card number of the example, written with dashes, was accepted
C5_WitnessDashedNumberAccepted ==
    /\ ret.op = "_validate_credit_card"
    /\ run.number = "4111-1111-1111-1111"
    /\ ret.value = TRUE

-----------------------------------------------------------------------------
\* Properties of _calculate_context_score

Range(f) == {f[j] : j \in DOMAIN f}

\* pos lies strictly inside an occurrence of a keyword of the category in text
SplitsKeyword(text, pos, pii_type) ==
    \E keyword \in Range(context_keywords(pii_type)) :
        \E j \in 0..(Len(text) - Len(keyword)) :
            /\ Slice(lower(text), j, j + Len(keyword)) = keyword
            /\ j < pos
            /\ pos < j + Len(keyword)

ScoreBounded == ret.op = "_calculate_context_score" => (ret.score >= 7000 /\ ret.score <= 10000)

\* C6 as stated: one more occurrence of a keyword of the category in the
\* window never lowers the score, and the score is within [0.7, 1.0].
C6_Original_InsertionNeverLowersScore ==
    /\ ScoreBounded
    /\ (ret.op = "_calculate_context_score" /\ run.earlier /= << >>) =>
           ret.score >= run.earlier[1].score

\* C6: one more occurrence of a keyword of the category, put in at a place
\* that is not strictly inside an occurrence of a keyword that is already in
\* the window, never lowers the score, and the score is within [0.7, 1.0].
C6_InsertionOutsideKeywordsNeverLowersScore ==
    /\ ScoreBounded
    /\ (/\ ret.op = "_calculate_context_score"
        /\ run.earlier /= << >>
        /\ ~SplitsKeyword(run.earlier[1].text, run.earlier[1].pos, run.pii_type)) =>
           ret.score >= run.earlier[1].score

\* a keyword put in between others raised the score up to the cap
C6_WitnessInsertionRaisedScore ==
    /\ ret.op = "_calculate_context_score"
    /\ run.earlier /= << >>
    /\ ~SplitsKeyword(run.earlier[1].text, run.earlier[1].pos, run.pii_type)
    /\ run.earlier[1].score < ret.score
    /\ ret.score = 10000

-----------------------------------------------------------------------------
\* Properties of _remove_overlapping_matches

Intersect(a, b) == a.start < b.end /\ b.start < a.end

\* C10: the selection is greedy by descending confidence: the accepted
\* candidates are candidates, in descending order of confidence, none of which
\* intersects another; every rejected candidate intersects an accepted one
\* whose confidence is at least its own; of two overlapping candidates with
\* confidences 0.9 and 0.75 only the 0.9 one survives.
C10_GreedyByDescendingConfidence ==
    ret.op = "_remove_overlapping_matches" =>
        LET accepted == Range(ret.value)
            candidates == Range(run.matches)
        IN  /\ accepted \subseteq candidates
            /\ Cardinality(accepted) = Len(ret.value)
            /\ \A j, k \in 1..Len(ret.value) :
                   j < k => (/\ ret.value[j].confidence >= ret.value[k].confidence
                             /\ ~Intersect(ret.value[j], ret.value[k]))
            /\ \A c \in candidates \ accepted :
                   \E a \in accepted : Intersect(a, c) /\ a.confidence >= c.confidence
            /\ (/\ Len(run.matches) = 2
                /\ Intersect(run.matches[1], run.matches[2])
                /\ {run.matches[1].confidence, run.matches[2].confidence} = {7500, 9000}) =>
                   (Len(ret.value) = 1 /\ ret.value[1].confidence = 9000)

\* the candidate of confidence 0.75 came first and only the one of 0.9 is left
C10_WitnessLowerConfidenceRejected ==
    /\ ret.op = "_remove_overlapping_matches"
    /\ Len(run.matches) = 2
    /\ run.matches[1].confidence = 7500
    /\ run.matches[2].confidence = 9000
    /\ Intersect(run.matches[1], run.matches[2])
    /\ ret.value = <<run.matches[2]>>

-----------------------------------------------------------------------------
\* Properties of detect_pii

\* the spans of a category in a result
spans_of(pii_data, key) == IF dict_has(pii_data, key) THEN dict_get(pii_data, key) ELSE << >>

\* C1: in the result of detect_pii, for every category key, the NLP_* ones
\* included, no two spans of the category intersect as half-open intervals.
C1_NoTwoSpansOfCategoryIntersect ==
    ret.op = "detect_pii" =>
        \A j \in 1..Len(ret.pii_data) :
            \A a, b \in 1..Len(ret.pii_data[j].v) :
                a /= b => ~Intersect(ret.pii_data[j].v[a], ret.pii_data[j].v[b])

\* a pattern category and an NLP category each hold two spans
C1_WitnessTwoSpansInCategory ==
    /\ ret.op = "detect_pii"
    /\ Len(spans_of(ret.pii_data, "NAME")) = 2
    /\ Len(spans_of(ret.pii_data, "NLP_PERSON")) = 2

\* C2: every span detect_pii returns has 0 <= start < end <= length of the
\* text and 0 <= confidence <= 1, for every text, threshold and context window.
C2_SpansWithinTextConfidenceWithinUnit ==
    ret.op = "detect_pii" =>
        \A span \in all_spans(ret.pii_data) :
            /\ 0 <= span.match.start
            /\ span.match.start < span.match.end
            /\ span.match.end <= Len(run.text[1])
            /\ 0 <= span.match.confidence
            /\ span.match.confidence <= 10000

\* a span that ends where the text ends, with a confidence the cap brought to 1
C2_WitnessSpanAtEndOfTextWithConfidenceOne ==
    /\ ret.op = "detect_pii"
    /\ run.text = <<"Contact: 9876543210">>
    /\ \E span \in all_spans(ret.pii_data) :
           /\ span.pii_type = "MOBILE"
           /\ span.match.end = Len(run.text[1])
           /\ span.match.confidence = 10000

\* C9: on "Contact: 9876543210, Aadhaar: 1234 5678 9123" with the default
\* threshold, detect_pii returns exactly one MOBILE span, covering
\* "9876543210", and an AADHAAR span covering the twelve digits if and only
\* if they pass the Verhoeff check (so too with digits that do pass); no
\* AADHAAR span of any result holds digits that fail the check.
C9_ScenarioMobileAndAadhaarIffVerhoeff ==
    ret.op = "detect_pii" =>
        /\ \A j \in 1..Len(spans_of(ret.pii_data, "AADHAAR")) :
               Generated(WithoutSeparators(spans_of(ret.pii_data, "AADHAAR")[j].text))
        /\ (run.text \in {<<Scenario>>, <<ScenarioValid>>} /\ self_config = DefaultConfig) =>
               /\ Len(spans_of(ret.pii_data, "MOBILE")) = 1
               /\ spans_of(ret.pii_data, "MOBILE")[1].start = 9
               /\ spans_of(ret.pii_data, "MOBILE")[1].end = 19
               /\ spans_of(ret.pii_data, "MOBILE")[1].text = "9876543210"
               /\ (\E j \in 1..Len(spans_of(ret.pii_data, "AADHAAR")) :
                       /\ spans_of(ret.pii_data, "AADHAAR")[j].start = 30
                       /\ spans_of(ret.pii_data, "AADHAAR")[j].end = 44)
                   <=> Generated(WithoutSeparators(Slice(run.text[1], 30, 44)))

\* the scenario's text gave the MOBILE span and no AADHAAR span
C9_WitnessScenarioMobileOnly ==
    /\ ret.op = "detect_pii"
    /\ run.text = <<Scenario>>
    /\ self_config = DefaultConfig
    /\ Len(spans_of(ret.pii_data, "MOBILE")) = 1
    /\ spans_of(ret.pii_data, "AADHAAR") = << >>
    /\ ~Generated(WithoutSeparators(Slice(run.text[1], 30, 44)))

-----------------------------------------------------------------------------
\* Properties of redact_file

\* C7: when _redact_text works from detections, the text it writes is as
\* long as the text it read, and for each span [s, e) the positions s..e-1
\* of the written text hold the mask character.
C7_MaskedTextKeepsLength ==
    (/\ ret.op = "redact_file"
     /\ ret.raised = ""
     /\ format_of(run.input_path) = "text"
     /\ ret.pii_data /= << >>) =>
        /\ Len(ret.written[1].text[1]) = Len(run.files[run.input_path].text[1])
        /\ \A span \in all_spans(ret.pii_data) :
               \A p \in (span.match.start + 1)..span.match.end :
                   SubSeq(ret.written[1].text[1], p, p) = MaskChar

\* a text file was written with its number masked and the rest as it was
C7_WitnessNumberMasked ==
    /\ ret.op = "redact_file"
    /\ ret.raised = ""
    /\ format_of(run.input_path) = "text"
    /\ run.files[run.input_path].text = <<"Contact: 9876543210">>
    /\ ret.written = <<[text |-> <<"Contact: ~~~~~~~~~~">>, saved_by |-> "open"]>>
    /\ files[ret.output[1]] = ret.written[1]

\* C8: when detection on a document finds no span, the output of redact_file
\* is the input document byte for byte, in every supported format.
C8_NoSpansOutputIdentical ==
    (ret.op = "redact_file" /\ ret.raised = "" /\ ret.pii_data = << >>) =>
        /\ ret.output /= << >>
        /\ files[ret.output[1]] = run.files[run.input_path]

\* a Word document without PII was passed through
C8_WitnessWordDocumentCopied ==
    /\ ret.op = "redact_file"
    /\ ret.raised = ""
    /\ ret.pii_data = << >>
    /\ format_of(run.input_path) = "word"
    /\ run.files[run.input_path] = [text |-> <<"Contact: ">>, saved_by |-> "user"]
    /\ files[ret.output[1]] = run.files[run.input_path]
    /\ ret.output[1] /= run.input_path

-----------------------------------------------------------------------------
\* The threshold and the priority boost

\* the bare 10-digit runs of text (matches of the first MOBILE pattern that
\* are ten digits) which pass the mobile validator and have no MOBILE keyword
\* in their window
BareMobileRuns(text, context_window) ==
    LET found == finditer(MOBILE_patterns[1], text)
    IN  {[start |-> found[j].start, end |-> found[j].end] : j \in
            {j \in 1..Len(found) :
                /\ found[j].end - found[j].start = 10
                /\ _validate_mobile(Slice(text, found[j].start, found[j].end))
                /\ _calculate_context_score(text, found[j].start, found[j].end, "MOBILE",
                                            context_window) = BaseScore}}

\* C11 as stated: with confidence_threshold 0.8, a bare 10-digit run that
\* passes the mobile validator and has context score 0.7 gives no MOBILE
\* candidate in detect_pii.
C11_Original_BareRunBelowThresholdGivesNoCandidate ==
    (ret.op = "detect_pii" /\ self_config.confidence_threshold = 8000 /\ run.text /= << >>) =>
        \A m \in BareMobileRuns(run.text[1], self_config.context_window) :
            \A j \in 1..Len(spans_of(ret.pii_data, "MOBILE")) :
                ~Intersect(spans_of(ret.pii_data, "MOBILE")[j], m)

\* C11: with confidence_threshold 0.8, a bare 10-digit run that passes the
\* mobile validator and has context score 0.7 gets the priority boost of
\* MOBILE, 0.3, so its confidence is 1.0, above the threshold: detect_pii
\* returns a MOBILE span that covers exactly the run, with confidence 1.0.
C11_BareRunBoostedAboveThreshold ==
    (ret.op = "detect_pii" /\ self_config.confidence_threshold = 8000 /\ run.text /= << >>) =>
        \A m \in BareMobileRuns(run.text[1], self_config.context_window) :
            \E j \in 1..Len(spans_of(ret.pii_data, "MOBILE")) :
                /\ spans_of(ret.pii_data, "MOBILE")[j].start = m.start
                /\ spans_of(ret.pii_data, "MOBILE")[j].end = m.end
                /\ spans_of(ret.pii_data, "MOBILE")[j].confidence = One

\* the text is the ten digits alone, the threshold is 0.8 and the result
\* holds the MOBILE span of them
C11_WitnessBareRunDetected ==
    /\ ret.op = "detect_pii"
    /\ self_config.confidence_threshold = 8000
    /\ run.text = <<"9876543210">>
    /\ BareMobileRuns(run.text[1], self_config.context_window) = {[start |-> 0, end |-> 10]}
    /\ spans_of(ret.pii_data, "MOBILE") /= << >>
    /\ spans_of(ret.pii_data, "MOBILE")[1].text = "9876543210"
    /\ spans_of(ret.pii_data, "MOBILE")[1].confidence = One

-----------------------------------------------------------------------------
\* Properties of the session log

\* C12: a call of redact_file that returns normally leaves redaction_log
\* with exactly one more entry than before the call, the entry of that call
\* at the end and the earlier entries as they were, also when no span was
\* detected in the document.
C12_OneEntryPerReturnedCall ==
    (ret.op = "redact_file" /\ ret.raised = "") =>
        /\ Len(redaction_log) = Len(run.log) + 1
        /\ SubSeq(redaction_log, 1, Len(run.log)) = run.log
        /\ redaction_log[Len(redaction_log)].input_file = run.input_path
        /\ redaction_log[Len(redaction_log)].output_file = ret.output[1]

\* the counts of category key in one log entry
RECURSIVE CountIn(_, _, _)
CountIn(pii_detected, key, n) ==
    IF n = 0 THEN 0
    ELSE CountIn(pii_detected, key, n - 1) + (IF pii_detected[n].k = key THEN pii_detected[n].v ELSE 0)

\* the counts of category key in the first n entries of a log
RECURSIVE CategoryTotal(_, _, _)
CategoryTotal(log, key, n) ==
    IF n = 0 THEN 0
    ELSE CategoryTotal(log, key, n - 1) + CountIn(log[n].pii_detected, key, Len(log[n].pii_detected))

\* the total counts of the first n entries of a log
RECURSIVE EntriesTotal(_, _)
EntriesTotal(log, n) == IF n = 0 THEN 0 ELSE EntriesTotal(log, n - 1) + log[n].total_pii_count

LogCategories(log) ==
    UNION {{log[n].pii_detected[j].k : j \in 1..Len(log[n].pii_detected)} : n \in 1..Len(log)}

\* value holds the three aggregates of log
SummaryAggregates(value, log) ==
    /\ {"total_files_processed", "total_pii_redacted", "pii_types_found"} \subseteq DOMAIN value
    /\ value.total_files_processed = Len(log)
    /\ value.total_pii_redacted = EntriesTotal(log, Len(log))
    /\ {value.pii_types_found[j].k : j \in 1..Len(value.pii_types_found)} = LogCategories(log)
    /\ \A j \in 1..Len(value.pii_types_found) :
           /\ value.pii_types_found[j].v =
                  CategoryTotal(log, value.pii_types_found[j].k, Len(log))
           /\ \A i \in 1..Len(value.pii_types_found) :
                  value.pii_types_found[i].k = value.pii_types_found[j].k => i = j

\* C14 as stated: at every point of a session, also before any document has
\* been logged, get_redaction_summary returns the three aggregates: the number
\* of log entries, the sum of their total counts and the per-category sums.
C14_Original_SummaryAlwaysHasAggregates ==
    ret.op = "get_redaction_summary" => SummaryAggregates(ret.value, redaction_log)

\* C14: once a document has been logged, get_redaction_summary returns the
\* three aggregates: total_files_processed is the number of log entries,
\* total_pii_redacted the sum of their total counts and pii_types_found the
\* per-category sums over all entries; before any document has been logged
\* it returns only the message "No redactions performed yet".
C14_SummaryAggregatesOnceLogged ==
    ret.op = "get_redaction_summary" =>
        IF redaction_log = << >> THEN ret.value = [message |-> "No redactions performed yet"]
        ELSE SummaryAggregates(ret.value, redaction_log)

\* the summary of a log of two entries that both count MOBILE spans
C14_WitnessTwoEntriesSummed ==
    /\ ret.op = "get_redaction_summary"
    /\ Len(redaction_log) = 2
    /\ CategoryTotal(redaction_log, "MOBILE", 1) = 1
    /\ CategoryTotal(redaction_log, "MOBILE", 2) = 2
    /\ ret.value.total_files_processed = 2
    /\ \E j \in 1..Len(ret.value.pii_types_found) :
           ret.value.pii_types_found[j] = [k |-> "MOBILE", v |-> 2]

\* C16: when redact_file raises (the input is missing, its format is not
\* supported, or the applicator of its format raises while it masks or
\* saves), the caller gets the exception and no output path, and
\* redaction_log is what it was before the call.
C16_FailedCallLeavesLogAsItWas ==
    (ret.op = "redact_file" /\ ret.raised /= "") =>
        /\ ret.output = << >>
        /\ redaction_log = run.log

\* after a document was logged, a call failed for each reason in turn here:
\* the output could not be saved and the log still holds the one entry
C16_WitnessFailedSaveAfterLoggedDocument ==
    /\ ret.op = "redact_file"
    /\ ret.raised = "PermissionError"
    /\ Len(redaction_log) = 1
    /\ redaction_log = run.log
    /\ redaction_log[1].total_pii_count > 0

\* C17: when the text of the input document cannot be extracted, redact_file
\* raises: it returns no output path and writes no output document.
C17_ExtractionFailureSurfaces ==
    (/\ ret.op = "redact_file"
     /\ run.writable
     /\ run.input_path \in DOMAIN run.files
     /\ format_of(run.input_path) /= "unsupported"
     /\ extract_text_from_file(run.files, run.input_path) = << >>) =>
        /\ ret.raised /= ""
        /\ ret.output = << >>
        /\ ret.written = << >>

-----------------------------------------------------------------------------
\* Properties of concurrent calls and of what they log

\* the categories of a result, each with the confidences of its spans
Shape(pii_data) ==
    [j \in 1..Len(pii_data) |->
        [k |-> pii_data[j].k,
         v |-> [n \in 1..Len(pii_data[j].v) |-> pii_data[j].v[n].confidence] \o << >>]] \o << >>

\* a result with the matched texts and their places blanked
Blanked(pii_data) ==
    [j \in 1..Len(pii_data) |->
        [k |-> pii_data[j].k,
         v |-> [n \in 1..Len(pii_data[j].v) |->
                  [text |-> "", start |-> 0, end |-> 0,
                   confidence |-> pii_data[j].v[n].confidence]] \o << >>]] \o << >>

\* a log entry without its timestamp and file identifiers
WithoutIds(entry) == [entry EXCEPT !.timestamp = "", !.input_file = "", !.output_file = ""]

\* the matched texts of a result
MatchedTexts(pii_data) == {span.match.text : span \in all_spans(pii_data)}

\* C13: a log entry does not depend on the matched text of any span: two
\* documents whose detections have the same categories, as many spans in each
\* and the same confidences get log entries that are equal but for timestamp
\* and file identifiers, and every entry is the one that the detections with
\* their texts and places blanked give.
C13_LogEntryIndependentOfMatchedText ==
    /\ \A w \in Workers :
           (ret[w] /= NoCall /\ ret[w].logged /= << >>) =>
               ret[w].logged[1] = log_entry(run[w].input_path, run[w].output_path,
                                            Blanked(ret[w].pii_data), run[w].timestamp)
    /\ \A v, w \in Workers :
           (/\ ret[v] /= NoCall /\ ret[v].logged /= << >>
            /\ ret[w] /= NoCall /\ ret[w].logged /= << >>
            /\ Shape(ret[v].pii_data) = Shape(ret[w].pii_data)) =>
               WithoutIds(ret[v].logged[1]) = WithoutIds(ret[w].logged[1])

\* two documents with different matched texts and detections of one shape
\* were logged
C13_WitnessSameShapeDifferentTexts ==
    /\ Len(redaction_log) = 2
    /\ ret[1] /= NoCall /\ ret[1].logged = <<redaction_log[1]>>
    /\ ret[2] /= NoCall /\ ret[2].logged = <<redaction_log[2]>>
    /\ Shape(ret[1].pii_data) = Shape(ret[2].pii_data)
    /\ MatchedTexts(ret[1].pii_data) \cap MatchedTexts(ret[2].pii_data) = {}
    /\ WithoutIds(redaction_log[1]) = WithoutIds(redaction_log[2])
    /\ redaction_log[1] /= redaction_log[2]

\* the documents the workers were given
WorkerFiles == [path \in {run[w].input_path : w \in Workers} |-> files[path]]

\* what worker w's call gives when it runs alone
Alone(w) ==
    redact_file(WorkerFiles, run[w].input_path, run[w].output_path, run[w].timestamp,
                self_config, self_nlp)

\* the workers whose calls have appended to the log
Logged == {w \in Workers : run[w].pc = "done" /\ ret[w].logged /= << >>}

\* C18: under every interleaving of the calls, each finished call gave the
\* detections, the output document and the result of the call run alone, and
\* redaction_log holds exactly one entry for each call that has logged, that
\* call's own entry, none lost, doubled or mixed.
C18_InterleavedCallsAsAlone ==
    /\ \A w \in Workers :
           run[w].pc = "done" =>
               /\ ret[w] = Alone(w)
               /\ ret[w].written /= << >> => files[ret[w].output[1]] = ret[w].written[1]
    /\ Len(redaction_log) = Cardinality(Logged)
    /\ \A w \in Logged :
           Cardinality({n \in 1..Len(redaction_log) : redaction_log[n] = Alone(w).logged[1]}) = 1
    /\ \A n \in 1..Len(redaction_log) :
           \E w \in Logged : redaction_log[n] = Alone(w).logged[1]

\* both calls are done, the second worker's entry came first, and the two
\* entries hold different counts
C18_WitnessBothLoggedOutOfOrder ==
    /\ \A w \in Workers : run[w].pc = "done"
    /\ Len(redaction_log) = 2
    /\ redaction_log[1] = ret[2].logged[1]
    /\ redaction_log[2] = ret[1].logged[1]
    /\ redaction_log[1].total_pii_count /= redaction_log[2].total_pii_count

-----------------------------------------------------------------------------
\* The order of candidates of equal confidence

\* candidate a comes before candidate b in the order of the selection: higher
\* confidence first, and of equal confidences the one produced first (pattern
\* is the place of a candidate in the list)
SelectedBefore(a, b) ==
    \/ a.confidence > b.confidence
    \/ a.confidence = b.confidence /\ a.pattern < b.pattern

\* a is preferred to b by earliest start, then longest span
TieBreakPrefers(a, b) ==
    \/ a.start < b.start
    \/ a.start = b.start /\ a.end > b.end

\* C19 as stated: of two overlapping candidates of one category with equal
\* confidence, the one with the smaller start, or at equal starts the longer
\* one, is the one accepted, whatever the order in which they were produced.
C19_Original_TiesByStartThenLength ==
    (/\ ret.op = "_remove_overlapping_matches"
     /\ Len(run.matches) = 2
     /\ run.matches[1].confidence = run.matches[2].confidence
     /\ Intersect(run.matches[1], run.matches[2])) =>
        \A j, k \in 1..2 :
            TieBreakPrefers(run.matches[j], run.matches[k]) => ret.value = <<run.matches[j]>>

\* C19: the candidates of a category are ordered by confidence descending,
\* candidates of equal confidence staying in the order in which they were
\* produced (no tie-break on start or length): the accepted candidates are in
\* that order, every rejected candidate intersects an accepted one that comes
\* before it in that order, and of two overlapping candidates with equal
\* confidence the one produced first is the one accepted.
C19_TiesInProductionOrder ==
    ret.op = "_remove_overlapping_matches" =>
        /\ \A j, k \in 1..Len(ret.value) : j < k => SelectedBefore(ret.value[j], ret.value[k])
        /\ \A c \in Range(run.matches) \ Range(ret.value) :
               \E a \in Range(ret.value) : Intersect(a, c) /\ SelectedBefore(a, c)
        /\ (/\ Len(run.matches) = 2
            /\ run.matches[1].confidence = run.matches[2].confidence
            /\ Intersect(run.matches[1], run.matches[2])) =>
               ret.value = <<run.matches[1]>>

\* two overlapping candidates of equal confidence: the one produced first was
\* accepted although the other starts earlier
C19_WitnessFirstProducedAccepted ==
    /\ ret.op = "_remove_overlapping_matches"
    /\ Len(run.matches) = 2
    /\ run.matches[1].confidence = run.matches[2].confidence
    /\ Intersect(run.matches[1], run.matches[2])
    /\ run.matches[2].start < run.matches[1].start
    /\ ret.value = <<run.matches[1]>>

-----------------------------------------------------------------------------
\* The context score as a number of keywords

\* the window [start - w, end + w) of the call, cut to the text, in lower case
WindowOf(r, w) ==
    lower(Slice(r.text, IF r.start - w < 0 THEN 0 ELSE r.start - w,
                IF r.end + w > Len(r.text) THEN Len(r.text) ELSE r.end + w))

\* the places of window at which keyword occurs
Occurrences(window, keyword) ==
    {j \in 0..(Len(window) - Len(keyword)) : Slice(window, j, j + Len(keyword)) = keyword}

\* the occurrences of the category's keywords in the window: [keyword, place]
KeywordOccurrences(window, pii_type) ==
    UNION {{[keyword |-> k, place |-> j] : j \in Occurrences(window, k)} :
              k \in Range(context_keywords(pii_type))}

\* the category's keywords that occur in the window
KeywordsPresent(window, pii_type) ==
    {k \in Range(context_keywords(pii_type)) : Occurrences(window, k) /= {}}

\* min(1.0, 0.7 + 0.2 x N) in double arithmetic: 0.7, 0.8999999999999999,
\* and 1.0 from N = 2 on, 0.7 + 0.4 being above 1
ScoreOfCount(N) ==
    IF N = 0 THEN BaseScore ELSE IF N = 1 THEN fadd(BaseScore, KeywordStep) ELSE One

\* C20 as stated: the score is min(1.0, 0.7 + 0.2 x N), N being the number of
\* occurrences of the category's keywords in the window [start - w, end + w)
\* cut to the text, a keyword that occurs twice counting twice.
C20_Original_ScoreCountsOccurrences ==
    ret.op = "_calculate_context_score" =>
        ret.score = ScoreOfCount(Cardinality(KeywordOccurrences(
                        WindowOf(run, self_config.context_window), run.pii_type)))

\* C20: the score is min(1.0, 0.7 + 0.2 x N), N being the number of the
\* category's keywords that occur, in any case of letters, at least once in
\* the window [start - w, end + w) cut to the text; a keyword that occurs
\* twice counts once.
C20_ScoreCountsKeywordsPresent ==
    ret.op = "_calculate_context_score" =>
        ret.score = ScoreOfCount(Cardinality(KeywordsPresent(
                        WindowOf(run, self_config.context_window), run.pii_type)))

\* the window holds "phone" twice and no other keyword, and the score is
\* 0.8999999999999999
C20_WitnessKeywordTwiceCountedOnce ==
    /\ ret.op = "_calculate_context_score"
    /\ run.pii_type = "MOBILE"
    /\ run.text = "phone 98 phone"
    /\ run.start = 6
    /\ run.end = 8
    /\ self_config.context_window = 150
    /\ Cardinality(Occurrences(WindowOf(run, self_config.context_window), "phone")) = 2
    /\ KeywordsPresent(WindowOf(run, self_config.context_window), run.pii_type) = {"phone"}
    /\ ret.score = 8999

-----------------------------------------------------------------------------
\* A validator that raises

\* the spans of a category in a result on whose text _validate_age raises
RaisingSpans(pii_data, pii_type) ==
    {j \in 1..Len(spans_of(pii_data, pii_type)) :
        validation_raises("_validate_age", spans_of(pii_data, pii_type)[j].text)}

\* C15: when the validator of a category raises on a matched string, the
\* match gives no candidate, detect_pii returns its result all the same, and
\* the other matches, patterns and categories of the text are processed: the
\* spans of every other category are those the text has with the built
\* registry.
C15_RaisingValidatorCountsAsInvalid ==
    ret.op = "detect_pii" =>
        /\ RaisingSpans(ret.pii_data, run.faulted) = {}
        /\ \A j \in 1..Len(ret.pii_data) :
               ret.pii_data[j].k /= run.faulted =>
                   ret.pii_data[j].v =
                       spans_of(detect_pii(run.text, self_config, self_nlp), ret.pii_data[j].k)
        /\ \A j \in 1..Len(detect_pii(run.text, self_config, self_nlp)) :
               detect_pii(run.text, self_config, self_nlp)[j].k /= run.faulted =>
                   dict_has(ret.pii_data, detect_pii(run.text, self_config, self_nlp)[j].k)

\* the AADHAAR validator raised on "2345 6789 0124", which the built registry
\* accepts: the result has no AADHAAR span and has the MOBILE span, of a
\* category that comes later in the registry
C15_WitnessRaisedOnAadhaarMobileKept ==
    /\ ret.op = "detect_pii"
    /\ run.faulted = "AADHAAR"
    /\ run.text = <<ScenarioValid>>
    /\ self_config = DefaultConfig
    /\ validation_raises("_validate_age", "2345 6789 0124")
    /\ spans_of(detect_pii(run.text, self_config, self_nlp), "AADHAAR") /= << >>
    /\ spans_of(ret.pii_data, "AADHAAR") = << >>
    /\ Len(spans_of(ret.pii_data, "MOBILE")) = 1

-----------------------------------------------------------------------------
\* _redact_text on a text document (lines 834-863), with its call of
\* detect_pii statement by statement (lines 522-583): the loop over the
\* registry one category at a time, then the language model, then the
\* refinement. run holds the frames of the two calls: pc is the statement that
\* comes next, text what line 836 read, t the index of the category the loop
\* is at, matches the list the loop last built (line 531), detected_pii the
\* dict.

\* thresholds a config file sets next to the default one (lines 51-54): 0.79,
\* 0.7999999999999999 and 0.8
StageConfigs ==
    {DefaultConfig,
     [confidence_threshold |-> 7900, context_window |-> 150],
     [confidence_threshold |-> 7999, context_window |-> 150],
     [confidence_threshold |-> 8000, context_window |-> 5]}

StageTexts ==
    {"", "12", "7777777777", "9999999999", "Father: Al", "Name: Al", Tokens[5], ScenarioValid}

StageModels == {"none", "tagger"}

StagesInit ==
    /\ self_config \in StageConfigs
    /\ self_nlp \in StageModels
    /\ redaction_log = << >>
    /\ \E s \in StageTexts :
           /\ files = (InputPath(".txt") :> [text |-> <<s>>, saved_by |-> "user"])
           /\ run = [pc |-> "detect_pii", text |-> s, t |-> 1, matches |-> << >>, detected_pii |-> << >>]
    /\ ret = NoCall

\* lines 524-527
DetectStart ==
    /\ run.pc = "detect_pii"
    /\ IF run.text = ""
       THEN /\ run' = [run EXCEPT !.pc = "done"]
            /\ ret' = [op |-> "detect_pii", pii_data |-> << >>]
       ELSE /\ run' = [run EXCEPT !.pc = "stage1"]
            /\ ret' = ret
    /\ UNCHANGED <<self_config, self_nlp, redaction_log, files>>

\* lines 530-569: one turn of the loop over self.patterns.items()
Stage1Category ==
    /\ run.pc = "stage1"
    /\ LET config == patterns[run.t]
           matches == type_candidates(run.text, config, self_config)
       IN  run' = [run EXCEPT
                      !.matches = matches,
                      !.detected_pii = IF matches /= << >>
                                       THEN Append(@, [k |-> config.pii_type,
                                                       v |-> _remove_overlapping_matches(matches)])
                                       ELSE @,
                      !.t = @ + 1,
                      !.pc = IF run.t = Len(patterns) THEN "stage2" ELSE "stage1"]
    /\ UNCHANGED <<self_config, self_nlp, redaction_log, files, ret>>

\* lines 571-578
Stage2 ==
    /\ run.pc = "stage2"
    /\ run' = [run EXCEPT !.detected_pii = stage2(@, run.text, self_nlp), !.pc = "stage3"]
    /\ UNCHANGED <<self_config, self_nlp, redaction_log, files, ret>>

\* lines 580-583
Stage3 ==
    /\ run.pc = "stage3"
    /\ run' = [run EXCEPT !.detected_pii = _refine_detections(@), !.pc = "done"]
    /\ ret' = [op |-> "detect_pii", pii_data |-> _refine_detections(run.detected_pii)]
    /\ UNCHANGED <<self_config, self_nlp, redaction_log, files>>

\* lines 839-863: the document is copied or masked and saved, and logged in
\* the second case
RedactTextReturn ==
    /\ run.pc = "done"
    /\ run' = [run EXCEPT !.pc = "returned"]
    /\ \E timestamp \in Timestamps :
           ret' = redact_detected(files, InputPath(".txt"),
                                  _generate_output_path(InputPath(".txt"), timestamp),
                                  timestamp, <<run.text>>, ret.pii_data)
    /\ files' = (ret'.output[1] :> ret'.written[1]) @@ files
    /\ redaction_log' = IF ret'.logged = << >> THEN redaction_log
                         ELSE list_append(redaction_log, ret'.logged[1])
    /\ UNCHANGED <<self_config, self_nlp>>

StagesNext == DetectStart \/ Stage1Category \/ Stage2 \/ Stage3 \/ RedactTextReturn

StagesSpec == StagesInit /\ [][StagesNext]_vars

-----------------------------------------------------------------------------
\* The confidence of a candidate and the threshold

\* the category whose turn of the loop has just ended
TurnDone == run.pc \in {"stage1", "stage2"} /\ run.t > 1

\* the regex matches of the category of the last turn: [n, start, end, text],
\* n the pattern, start and end those of group 1 when the pattern has a group
TurnMatches ==
    LET config == patterns[run.t - 1]
    IN  UNION {LET found == finditer(config.patterns[n], run.text)
               IN  {[n |-> n,
                     start |-> IF found[j].gstart /= -1 THEN found[j].gstart ELSE found[j].start,
                     end |-> IF found[j].gstart /= -1 THEN found[j].gend ELSE found[j].end] :
                       j \in 1..Len(found)} :
                  n \in 1..Len(config.patterns)}

\* the validator of the last turn's category passes on a regex match
ValidatorPasses(m) ==
    LET name == patterns[run.t - 1].validation
        match_text == Slice(run.text, m.start, m.end)
    IN  ~validation_raises(name, match_text) /\ validation(name, match_text)

\* the match is emitted: matches holds a candidate for it
Emitted(m) ==
    \E j \in 1..Len(run.matches) :
        /\ run.matches[j].pattern = m.n
        /\ run.matches[j].start = m.start
        /\ run.matches[j].end = m.end

\* C21 as stated: every candidate has a final confidence in [0.8, 1.0], and
\* with a threshold below 0.8 a match is emitted if and only if its validator
\* passes.
C21_Original_ConfidenceAtLeastEightTenths ==
    TurnDone =>
        /\ \A j \in 1..Len(run.matches) :
               run.matches[j].confidence >= 8000 /\ run.matches[j].confidence <= One
        /\ self_config.confidence_threshold < 8000 =>
               \A m \in TurnMatches : Emitted(m) <=> ValidatorPasses(m)

\* C21: every candidate has a final confidence in [0.7999999999999999, 1.0],
\* the sum 0.7 + 0.1 being 0.7999999999999999 in double arithmetic, and with a
\* threshold below 0.7999999999999999 (the default 0.6 is) a match is emitted
\* if and only if its validator passes, whatever keywords are around it.
C21_ConfidenceAtLeastBasePlusTenth ==
    TurnDone =>
        /\ \A j \in 1..Len(run.matches) :
               run.matches[j].confidence >= 7999 /\ run.matches[j].confidence <= One
        /\ self_config.confidence_threshold < 7999 =>
               \A m \in TurnMatches : Emitted(m) <=> ValidatorPasses(m)

\* the turn of AGE on the text "12", threshold 0.79: the match has no keyword
\* around it, passes the validator and is emitted with 0.7999999999999999
C21_WitnessAgeWithoutKeywordEmitted ==
    /\ TurnDone
    /\ patterns[run.t - 1].pii_type = "AGE"
    /\ run.text = "12"
    /\ self_config.confidence_threshold = 7900
    /\ \E m \in TurnMatches : ValidatorPasses(m) /\ Emitted(m)
    /\ \E j \in 1..Len(run.matches) : run.matches[j].confidence = 7999

-----------------------------------------------------------------------------
\* The denylists and the short names

\* ten digits, all the same
RepeatedDigit(s) ==
    /\ Len(s) = 10
    /\ isdigit(s)
    /\ \A i \in 0..9 : Slice(s, i, i + 1) = Slice(s, 0, 1)

\* C22: no MOBILE span in the result of detect_pii has a 10-digit text whose
\* digits are all identical, for each of the digits 0 to 9.
C22_NoRepeatedDigitMobile ==
    ret.op = "detect_pii" =>
        \A j \in 1..Len(spans_of(ret.pii_data, "MOBILE")) :
            ~RepeatedDigit(spans_of(ret.pii_data, "MOBILE")[j].text)

\* C23: no span of NAME, FATHER_NAME, MOTHER_NAME or ADDRESS in the result of
\* detect_pii has a text shorter than 3 characters after trimming.
C23_NoShortNameOrAddress ==
    ret.op = "detect_pii" =>
        \A pii_type \in {"NAME", "FATHER_NAME", "MOTHER_NAME", "ADDRESS"} :
            \A j \in 1..Len(spans_of(ret.pii_data, pii_type)) :
                Len(strip(spans_of(ret.pii_data, pii_type)[j].text)) >= 3

-----------------------------------------------------------------------------
\* Resolution within a category only

\* what detect_pii gives for one category of the registry when nothing but
\* this category's candidates is looked at
CategoryAlone(config) ==
    refined_matches(_remove_overlapping_matches(type_candidates(run.text, config, self_config)),
                    config.pii_type)

PatternTypes == {patterns[t].pii_type : t \in 1..Len(patterns)}

\* C24: the spans of a category in the result of detect_pii are those that
\* the category's own candidates give, whatever the other categories and the
\* entities of the language model are; the entities are stored under NLP_
\* keys, each key with its own entities and nothing else, and no
\* pattern-derived category holds one; spans of different categories that
\* cover the same text are all in the result.
C24_ResolutionPerCategoryOnly ==
    (run.pc = "done" /\ run.text /= "") =>
        LET nlp_entities == IF self_nlp = "none" THEN << >> ELSE _detect_nlp_entities(run.text, self_nlp)
        IN  /\ \A t \in 1..Len(patterns) :
                   spans_of(ret.pii_data, patterns[t].pii_type) = CategoryAlone(patterns[t])
            /\ \A j \in 1..Len(nlp_entities) :
                   /\ Slice(nlp_entities[j].k, 0, 4) = "NLP_"
                   /\ nlp_entities[j].k \notin PatternTypes
                   /\ spans_of(ret.pii_data, nlp_entities[j].k) =
                          refined_matches(nlp_entities[j].v, nlp_entities[j].k)
            /\ \A j \in 1..Len(ret.pii_data) :
                   \/ ret.pii_data[j].k \in PatternTypes
                   \/ dict_has(nlp_entities, ret.pii_data[j].k)

\* the scenario text with the language model: MOBILE and BANK_ACCOUNT hold
\* the same ten digits, and a person entity covers them and the AADHAAR span
C24_WitnessSameTextInThreeCategories ==
    /\ run.pc = "done"
    /\ run.text = ScenarioValid
    /\ self_nlp = "tagger"
    /\ \E a \in 1..Len(spans_of(ret.pii_data, "MOBILE")), b \in 1..Len(spans_of(ret.pii_data, "BANK_ACCOUNT")),
          c \in 1..Len(spans_of(ret.pii_data, "NLP_PERSON")), d \in 1..Len(spans_of(ret.pii_data, "AADHAAR")) :
           /\ spans_of(ret.pii_data, "MOBILE")[a].start = spans_of(ret.pii_data, "BANK_ACCOUNT")[b].start
           /\ spans_of(ret.pii_data, "MOBILE")[a].end = spans_of(ret.pii_data, "BANK_ACCOUNT")[b].end
           /\ Intersect(spans_of(ret.pii_data, "NLP_PERSON")[c], spans_of(ret.pii_data, "MOBILE")[a])
           /\ Intersect(spans_of(ret.pii_data, "NLP_PERSON")[c], spans_of(ret.pii_data, "AADHAAR")[d])

-----------------------------------------------------------------------------
\* The replacements of _redact_text (lines 844-857) on a text and the spans of
\* up to MaxMasked categories, one span each, which may overlap, nest or start
\* at the same offset; the categories are in the order of the registry.

MaskText == "abcde"

MaxMasked == 3

MaskTypes == <<"AADHAAR", "BANK_ACCOUNT", "MOBILE", "NAME">>

\* the spans of a text: [text, start, end, confidence]
SpansIn(text) ==
    UNION {{[text |-> Slice(text, a, b), start |-> a, end |-> b, confidence |-> One] :
               b \in (a + 1)..Len(text)} :
              a \in 0..(Len(text) - 1)}

\* the dict of the categories that have a span, f[j] being << >> or <<span>>
DictOf(f) ==
    LET items == [j \in 1..MaxMasked |-> [k |-> MaskTypes[j], v |-> f[j]]] \o << >>
    IN  SelectSeq(items, LAMBDA item : item.v /= << >>)

MaskInit ==
    /\ self_config = DefaultConfig
    /\ self_nlp = "none"
    /\ redaction_log = << >>
    /\ files = << >>
    /\ run \in {[text |-> MaskText, pii_data |-> DictOf(f)] :
                   f \in [1..MaxMasked -> {<< >>} \cup {<<m>> : m \in SpansIn(MaskText)}]}
    /\ ret = NoCall

RedactText ==
    /\ ret = NoCall
    /\ run.pii_data /= << >>
    /\ ret' = [op |-> "_redact_text", redacted_text |-> redacted_text_of(run.text, run.pii_data)]
    /\ UNCHANGED <<self_config, self_nlp, redaction_log, files, run>>

MaskNext == RedactText

MaskSpec == MaskInit /\ [][MaskNext]_vars

\* position i of the text lies inside a span of the dict
Covered(pii_data, i) ==
    \E span \in all_spans(pii_data) : span.match.start <= i /\ i < span.match.end

\* C25: after all replacements of _redact_text a position of the output
\* holds the mask character if it lies inside at least one span and otherwise
\* the input character; so it is when spans of different categories overlap,
\* nest or share a start offset, in whatever order the categories are.
C25_MaskedExactlyWhereCovered ==
    ret.op = "_redact_text" =>
        /\ Len(ret.redacted_text) = Len(run.text)
        /\ \A i \in 0..(Len(run.text) - 1) :
               Slice(ret.redacted_text, i, i + 1) =
                   IF Covered(run.pii_data, i) THEN MaskChar ELSE Slice(run.text, i, i + 1)

\* a short span and a longer one of a later category start at the same
\* offset, a third one overlaps the longer one: "abcde" becomes "~~~~e"
C25_WitnessSameStartAndOverlap ==
    /\ ret.op = "_redact_text"
    /\ spans_of(run.pii_data, "AADHAAR") /= << >>
    /\ spans_of(run.pii_data, "BANK_ACCOUNT") /= << >>
    /\ spans_of(run.pii_data, "MOBILE") /= << >>
    /\ spans_of(run.pii_data, "AADHAAR")[1].start = 0 /\ spans_of(run.pii_data, "AADHAAR")[1].end = 1
    /\ spans_of(run.pii_data, "BANK_ACCOUNT")[1].start = 0 /\ spans_of(run.pii_data, "BANK_ACCOUNT")[1].end = 3
    /\ spans_of(run.pii_data, "MOBILE")[1].start = 2 /\ spans_of(run.pii_data, "MOBILE")[1].end = 4
    /\ ret.redacted_text = times(MaskChar, 4) \o "e"

-----------------------------------------------------------------------------
\* _validate_mobile on numbers as they are written: with or without the
\* country code, with a plus sign, a dash or a space after the code

MobilePrefixes == {"", "+91", "91", "+91-", "91 ", "0"}

MobileLengths == {9, 10, 11}

\* a number of n digits that starts with the digits a and b, after a prefix
MobileNumber(prefix, n, a, b) == prefix \o a \o b \o times("5", n - 2)

MobileInit ==
    /\ self_config = DefaultConfig
    /\ self_nlp = "none"
    /\ redaction_log = << >>
    /\ files = << >>
    /\ ret = NoCall
    /\ run \in {[number |-> MobileNumber(prefix, n, a, b)] :
                   prefix \in MobilePrefixes, n \in MobileLengths, a \in AsciiDigits, b \in AsciiDigits}

ValidateMobile ==
    /\ ret = NoCall
    /\ ret' = [op |-> "_validate_mobile", value |-> _validate_mobile(run.number)]
    /\ UNCHANGED <<self_config, self_nlp, redaction_log, files, run>>

MobileNext == ValidateMobile

MobileSpec == MobileInit /\ [][MobileNext]_vars

\* the number without dashes, whitespace and plus signs
RECURSIVE Written(_)
Written(number) ==
    IF number = "" THEN ""
    ELSE IF SubSeq(number, 1, 1) \in {"-", "+", " ", "\t", "\n"} THEN Written(SubSeq(number, 2, Len(number)))
    ELSE SubSeq(number, 1, 1) \o Written(SubSeq(number, 2, Len(number)))

\* the number after the country code: a number of more than ten characters
\* that starts with 91 has one
National(number) ==
    LET written == Written(number)
    IN  IF Len(written) > 10 /\ SubSeq(written, 1, 2) = "91" THEN SubSeq(written, 3, Len(written))
        ELSE written

\* C26: _validate_mobile accepts exactly the numbers that, without dashes,
\* whitespace, plus signs and a leading country code 91, are 10 digits that
\* start with 6, 7, 8 or 9; every bare number of 10 digits that starts with
\* 6, 7, 8 or 9 is accepted, also when its first two digits are 91.
C26_MobileAcceptsTenDigitsAfterCountryCode ==
    ret.op = "_validate_mobile" =>
        /\ ret.value <=> /\ Len(National(run.number)) = 10
                         /\ \A j \in 1..10 : SubSeq(National(run.number), j, j) \in AsciiDigits
                         /\ SubSeq(National(run.number), 1, 1) \in {"6", "7", "8", "9"}
        /\ (/\ Len(run.number) = 10
            /\ \A j \in 1..10 : SubSeq(run.number, j, j) \in AsciiDigits
            /\ SubSeq(run.number, 1, 1) \in {"6", "7", "8", "9"}) => ret.value

-----------------------------------------------------------------------------
\* The session log over the calls of a session

\* C27: the session log is append-only: every call (detect_pii, redact_file
\* that returns or raises, get_redaction_summary, validate_redaction_quality)
\* leaves the log it found as a prefix of the log it leaves, entry by entry,
\* and only a redact_file call makes it longer; so the log of every earlier
\* state is a prefix of the log of every later state.
C27_LogAppendOnly ==
    [][/\ Len(redaction_log') >= Len(redaction_log)
       /\ SubSeq(redaction_log', 1, Len(redaction_log)) = redaction_log
       /\ redaction_log' /= redaction_log => ret'.op = "redact_file"]_vars

\* the log holds two entries, written by two redact_file calls, and a
\* validate_redaction_quality call has come after them
C27_WitnessTwoEntriesThenValidation ==
    /\ Len(redaction_log) = 2
    /\ redaction_log[1].output_file /= redaction_log[2].output_file
    /\ ret.op = "validate_redaction_quality"

-----------------------------------------------------------------------------
\* No category without a span

\* the sum of the counts of a log entry's categories, from the n-th on
RECURSIVE SumOfCounts(_, _)
SumOfCounts(pii_detected, n) ==
    IF n > Len(pii_detected) THEN 0 ELSE pii_detected[n].v + SumOfCounts(pii_detected, n + 1)

\* no key of the dict has an empty list
NoEmptyCategory(pii_data) == \A j \in 1..Len(pii_data) : pii_data[j].v /= << >>

\* C28: the dict that detect_pii builds and returns never maps a category to
\* an empty list; a category of the registry is a key of the result exactly
\* when a candidate of its own is left after validation, threshold, overlap
\* resolution and the refinement; the result is empty exactly when it has no
\* span; every entry of redaction_log has a total_pii_count of at least 1,
\* the sum of its per-category counts, each of which is at least 1.
C28_NoCategoryWithoutSpan ==
    /\ NoEmptyCategory(run.detected_pii)
    /\ ret.op \in {"detect_pii", "redact_file"} =>
           /\ NoEmptyCategory(ret.pii_data)
           /\ ret.pii_data = << >> <=> all_spans(ret.pii_data) = {}
    /\ (run.pc = "done" /\ run.text /= "") =>
           \A t \in 1..Len(patterns) :
               dict_has(ret.pii_data, patterns[t].pii_type) <=> CategoryAlone(patterns[t]) /= << >>
    /\ \A n \in 1..Len(redaction_log) :
           /\ redaction_log[n].total_pii_count >= 1
           /\ redaction_log[n].total_pii_count = SumOfCounts(redaction_log[n].pii_detected, 1)
           /\ \A j \in 1..Len(redaction_log[n].pii_detected) : redaction_log[n].pii_detected[j].v >= 1

\* the document "9999999999": the MOBILE candidate is emitted and dropped by
\* the refinement, the account number stays, and the entry counts it alone
C28_WitnessDroppedCategoryNotLogged ==
    /\ run.pc = "returned"
    /\ run.text = "9999999999"
    /\ Len(redaction_log) = 1
    /\ redaction_log[1].total_pii_count = 1
    /\ dict_keys(redaction_log[1].pii_detected) = <<"BANK_ACCOUNT">>
    /\ ~dict_has(run.detected_pii, "MOBILE")

-----------------------------------------------------------------------------
\* The validation of a redacted file

\* C29: validate_redaction_quality returns True only if the text of the
\* redacted file was extracted and detect_pii finds no span in it; when the
\* extraction of the redacted file fails, it does not return True.
C29_ValidatedOnlyWhenExtracted ==
    (ret.op = "validate_redaction_quality" /\ ret.value) =>
        /\ extract_text_from_file(files, run.redacted_path) /= << >>
        /\ detect_pii(extract_text_from_file(files, run.redacted_path), self_config, self_nlp) = << >>

-----------------------------------------------------------------------------
\* main (lines 966-1010), called with an input file and with or without an
\* output file: it builds an engine of its own (line 979), calls redact_file,
\* validate_redaction_quality and get_redaction_summary on it, reads the
\* summary and returns a dict; whatever is raised on the way is caught at line
\* 1004. run holds main's locals, ret what main returns.

\* ensure_proper_extension (lines 958-963)
ensure_proper_extension(file_path) ==
    IF file_path.suffix = "" THEN [stem |-> file_path.stem, suffix |-> ".txt"] ELSE file_path

\* sys.argv[2] for an input file: none, a path with the suffix of the input,
\* and for a text document also a path without a suffix
OutputArgs(input_file) ==
    {<< >>, <<[stem |-> "out", suffix |-> input_file.suffix]>>} \cup
    (IF input_file.suffix = ".txt" THEN {<<[stem |-> "out", suffix |-> ""]>>} ELSE {})

\* lines 1007-1010
MainFailed(error) == [op |-> "main", success |-> FALSE, error |-> error]

MainInit ==
    /\ self_config = DefaultConfig
    /\ self_nlp \in {"none", "tagger"}
    /\ redaction_log = << >>
    /\ \E suffix \in Suffixes, text \in DocTexts :
           files = (InputPath(suffix) :> [text |-> text, saved_by |-> "user"])
    /\ \E input_file \in DOMAIN files \cup {MissingPath} :
           \E arg \in OutputArgs(input_file) :
               run = [pc |-> "redact_file", input_file |-> input_file,
                      output_file |-> IF arg = << >> THEN << >> ELSE <<ensure_proper_extension(arg[1])>>,
                      call |-> NoCall, result |-> << >>, is_valid |-> << >>, summary |-> << >>]
    /\ ret = NoCall

\* the call of line 982: call is what redact_file raised or returned
MainRedactFile ==
    /\ run.pc = "redact_file"
    /\ \E timestamp \in Timestamps, writable \in BOOLEAN :
           run' = [run EXCEPT
                      !.pc = "redact_file returned",
                      !.call = output_saved(redact_file(files, run.input_file,
                                                        IF run.output_file /= << >> THEN run.output_file[1]
                                                        ELSE _generate_output_path(run.input_file, timestamp),
                                                        timestamp, self_config, self_nlp),
                                            writable)]
    /\ files' = IF run'.call.written = << >> THEN files
                ELSE (run'.call.output[1] :> run'.call.written[1]) @@ files
    /\ redaction_log' = IF run'.call.logged = << >> THEN redaction_log
                         ELSE list_append(redaction_log, run'.call.logged[1])
    /\ UNCHANGED <<self_config, self_nlp, ret>>

\* redact_file raised: lines 1004-1010
MainExcept ==
    /\ run.pc = "redact_file returned"
    /\ run.call.raised /= ""
    /\ run' = [run EXCEPT !.pc = "done"]
    /\ ret' = MainFailed(run.call.raised)
    /\ UNCHANGED <<self_config, self_nlp, redaction_log, files>>

\* lines 982-985: result is the path redact_file returned
MainValidate ==
    /\ run.pc = "redact_file returned"
    /\ run.call.raised = ""
    /\ run' = [run EXCEPT !.pc = "get_redaction_summary",
                          !.result = run.call.output,
                          !.is_valid = <<validate_redaction_quality(files, run.input_file, run.call.output[1],
                                                                    self_config, self_nlp)>>]
    /\ UNCHANGED <<self_config, self_nlp, redaction_log, files, ret>>

\* lines 992-1002: summary['total_pii_redacted'] raises KeyError on the dict
\* that holds the message only
MainSummary ==
    /\ run.pc = "get_redaction_summary"
    /\ run' = [run EXCEPT !.pc = "done", !.summary = <<get_redaction_summary(redaction_log)>>]
    /\ ret' = IF "total_pii_redacted" \in DOMAIN get_redaction_summary(redaction_log)
              THEN [op |-> "main", success |-> TRUE, output_file |-> run.result[1],
                    summary |-> get_redaction_summary(redaction_log),
                    validation_passed |-> run.is_valid[1]]
              ELSE MainFailed("KeyError")
    /\ UNCHANGED <<self_config, self_nlp, redaction_log, files>>

MainNext == MainRedactFile \/ MainExcept \/ MainValidate \/ MainSummary

MainSpec == MainInit /\ [][MainNext]_vars

\* C30: in main, the sequence redact_file, validate_redaction_quality,
\* get_redaction_summary ends with a result whose success flag is True
\* whenever redact_file returned normally, also for a document in which no
\* PII was detected: the summary read after the redaction has the fields
\* main reads.
C30_MainSucceedsWhenRedactFileReturned ==
    (run.pc = "done" /\ run.result /= << >>) =>
        /\ ret.success
        /\ {"total_pii_redacted", "pii_types_found"} \subseteq DOMAIN run.summary[1]

=============================================================================
